---- MODULE Spec2Model ----
(***************************************************************************)
(* A model of the integer-compression engine and filter interpreter of     *)
(* the decompressor prototype:                                             *)
(*   - intcomp/AbbrevAssignWriter.cpp : the greedy longest-match rewriter  *)
(*   - intcomp/AbbreviationCodegen.cpp: the decoder-algorithm generator    *)
(*   - interp/Interpreter.cpp         : eval / read / write of filter ASTs *)
(***************************************************************************)
EXTENDS Integers, Sequences, FiniteSets, TLC

(***************************************************************************)
(* Bounds of the model.                                                    *)
(***************************************************************************)
\* largest LengthLimit (ring-buffer capacity / longest trie path) explored
MaxLengthLimit == 2
\* at most this many integer paths carry an abbreviation index
MaxAbbrevs == 2
\* at most this many public operations are issued to the rewriter
MaxOps == 4

\* the integer values written to the rewriter
Values == {1, 2}

(***************************************************************************)
(* Integer formats (decode::IntTypeFormat) and the compression flags.      *)
(***************************************************************************)
IntTypeFormat ==
  {"Uint8", "Uint32", "Uint64", "Varint32", "Varint64", "Varuint32", "Varuint64"}

\* The (AbbrevFormat, DefaultFormat, LoopSizeFormat) triples explored.
FlagChoices ==
  { [AbbrevFormat |-> "Varuint32", DefaultFormat |-> "Varint64",
     LoopSizeFormat |-> "Varuint64"] }

(***************************************************************************)
(* The count trie as the rewriter sees it.  An integer node is identified  *)
(* by its path from Root (a non-empty sequence of values); the five        *)
(* singletons by name.                                                     *)
(***************************************************************************)
Singletons == {"DefaultMultiple", "DefaultSingle", "BlockEnter", "BlockExit", "Align"}

\* value returned by getAbbrevIndex() of a node without an abbreviation
NoAbbrevIndex == 99

SingletonIndex(s) ==
  CASE s = "DefaultMultiple" -> 0
    [] s = "DefaultSingle" -> 1
    [] s = "BlockEnter" -> 2
    [] s = "BlockExit" -> 3
    [] s = "Align" -> 4

FirstPathIndex == Cardinality(Singletons)

PathsUpTo(n) == UNION { [1..k -> Values] : k \in 1..n }

RECURSIVE SubsetsUpTo(_, _)
SubsetsUpTo(S, k) ==
  IF k = 0 THEN {{}}
  ELSE LET prev == SubsetsUpTo(S, k - 1)
       IN prev \cup { T \cup {x} : T \in prev, x \in S }

\* A dense numbering of the chosen paths after the singletons.
NumberPaths(P) ==
  CHOOSE f \in [P -> FirstPathIndex..(FirstPathIndex + Cardinality(P) - 1)] :
    \A p, q \in P : p # q => f[p] # f[q]

Prefixes(s) == { SubSeq(s, 1, i) : i \in 1..Len(s) }

VARIABLES
  LengthLimit,    \* CompressionFlags.LengthLimit: capacity of Buffer
  Flags,          \* AbbrevFormat / DefaultFormat / LoopSizeFormat
  IntAbbrev,      \* path -> AbbrevIndex, for the integer nodes that have one
  SingAbbrev,     \* singleton -> AbbrevIndex or NoAbbrevIndex
  Nodes,          \* paths of the integer nodes that exist in the trie
  Buffer,         \* AbbrevAssignWriter::Buffer (ring buffer of values)
  DefaultValues,  \* AbbrevAssignWriter::DefaultValues (queued defaults)
  Out,            \* the calls received by the underlying Writer, in order
  Hist,           \* the public operations issued so far, in order
  status,         \* "open", "frozen", "abort" (assertion) or "stuck"
  Interp,         \* the Interpreter: cursors, output, registers and stacks
  Prev,           \* the Interpreter as it was before its last call
  LastCall,       \* the last call made on the Interpreter
  NumCalls,       \* the number of calls made on the Interpreter
  Symtab,         \* the SymbolTable built by AbbreviationCodegen: its Algorithm
  Flat,           \* the FlattenAst: output stream, HasErrors, FreezeEofOnDestruct
  StrW,           \* the StringWriter: Str, IsFrozen and its last result
  IntRd,          \* the IntReader: Pos, PeekPos and PeekPosStack
  Comp            \* the IntCompressor: Input and its cutoffs

wvars == <<LengthLimit, Flags, IntAbbrev, SingAbbrev, Nodes, Buffer,
           DefaultValues, Out, Hist, status>>

ivars == <<Interp, Prev, LastCall, NumCalls>>

\* the code generator and flattener, and the stream layer
gvars == <<Symtab, Flat>>

svars == <<StrW, IntRd, Comp>>

vars == <<wvars, ivars, gvars, svars>>

(***************************************************************************)
(* CountNode accessors.                                                    *)
(***************************************************************************)
hasAbbrevIndex(p) == p \in DOMAIN IntAbbrev

getAbbrevIndex(p) == IF hasAbbrevIndex(p) THEN IntAbbrev[p] ELSE NoAbbrevIndex

getPathLength(p) == Len(p)

(***************************************************************************)
(* The state of one AbbrevAssignWriter, threaded through its methods.      *)
(***************************************************************************)
Cur ==
  [buf |-> Buffer, dv |-> DefaultValues, out |-> Out, nodes |-> Nodes,
   st |-> status]

IntTok(f, v) == [k |-> "int", f |-> f, v |-> v]
ActTok(a) == [k |-> "action", f |-> a, v |-> 0]
FreezeTok == [k |-> "freeze", f |-> "eof", v |-> 0]

\* The implicit conversion of an IntType argument to the parameter type of
\* Writer.writeUint8 / writeUint32 / ... ; every value of the model is
\* non-negative and below 2^31, so only the conversion to uint8_t can
\* change it.
FormatCast(f, v) == IF f = "Uint8" THEN v % 256 ELSE v

\* AbbrevAssignWriter::writeValue(IntType Value, IntTypeFormat Format)
writeValueFormat(w, Value, Format) ==
  [w EXCEPT !.out = Append(@, IntTok(Format, FormatCast(Format, Value)))]

RECURSIVE writeValuesFormat(_, _, _)
writeValuesFormat(w, Vs, Format) ==
  IF Vs = <<>> THEN w
  ELSE writeValuesFormat(writeValueFormat(w, Head(Vs), Format), Tail(Vs), Format)

\* flushDefaultValues that omits the run length of a DefaultMultiple group
flushDefaultValues_NoCount(w) ==
  IF w.dv = <<>> THEN w
  ELSE IF Len(w.dv) = 1 THEN
    LET w1 == writeValueFormat(w, SingAbbrev["DefaultSingle"], Flags.AbbrevFormat)
        w2 == writeValueFormat(w1, w.dv[1], Flags.DefaultFormat)
    IN [w2 EXCEPT !.dv = <<>>]
  ELSE
    LET w1 == writeValueFormat(w, SingAbbrev["DefaultMultiple"], Flags.AbbrevFormat)
        w3 == writeValuesFormat(w1, w.dv, Flags.DefaultFormat)
    IN [w3 EXCEPT !.dv = <<>>]

\* AbbrevAssignWriter::flushDefaultValues()
flushDefaultValues(w) ==
  IF w.dv = <<>> THEN w
  ELSE IF Len(w.dv) = 1 THEN
    LET w1 == writeValueFormat(w, SingAbbrev["DefaultSingle"], Flags.AbbrevFormat)
        w2 == writeValueFormat(w1, w.dv[1], Flags.DefaultFormat)
    IN [w2 EXCEPT !.dv = <<>>]
  ELSE
    LET w1 == writeValueFormat(w, SingAbbrev["DefaultMultiple"], Flags.AbbrevFormat)
        w2 == writeValueFormat(w1, Len(w.dv), Flags.LoopSizeFormat)
        w3 == writeValuesFormat(w2, w.dv, Flags.DefaultFormat)
    IN [w3 EXCEPT !.dv = <<>>]

\* AbbrevAssignWriter::forwardAbbrevValue(IntType Value)
forwardAbbrevValue(w, Value) ==
  writeValueFormat(flushDefaultValues(w), Value, Flags.AbbrevFormat)

\* AbbrevAssignWriter::forwardOtherValue(IntType Value)
forwardOtherValue(w, Value) == [w EXCEPT !.dv = Append(@, Value)]

\* popValuesFromBuffer whose loop stops one iteration early
popValuesFromBuffer_OffByOne(w, Size) ==
  LET m == IF Size > 0 THEN Size - 1 ELSE 0
      n == IF m < Len(w.buf) THEN m ELSE Len(w.buf)
  IN [w EXCEPT !.buf = SubSeq(@, n + 1, Len(@))]

\* AbbrevAssignWriter::popValuesFromBuffer(size_t Size)
popValuesFromBuffer(w, Size) ==
  LET n == IF Size < Len(w.buf) THEN Size ELSE Len(w.buf)
  IN [w EXCEPT !.buf = SubSeq(@, n + 1, Len(@))]

\* the walk of writeFromBuffer stopping at the first abbreviated node
MaxAbbrevNode_First(buf) ==
  LET A == { p \in Prefixes(buf) : hasAbbrevIndex(p) }
  IN IF A = {} THEN <<>>
     ELSE CHOOSE p \in A : \A q \in A : Len(p) <= Len(q)

\* The node Max of writeFromBuffer: the deepest node with an abbreviation
\* index among the nodes visited while walking the buffered values from
\* Root (<<>> stands for the null pointer).
MaxAbbrevNode(buf) ==
  LET A == { p \in Prefixes(buf) : hasAbbrevIndex(p) }
  IN IF A = {} THEN <<>>
     ELSE CHOOSE p \in A : \A q \in A : Len(q) <= Len(p)

\* writeFromBuffer that pops a single value after an abbreviation
writeFromBuffer_PopOne(w) ==
  IF w.buf = <<>> THEN w
  ELSE
    LET Max == MaxAbbrevNode(w.buf)
        w0 == [w EXCEPT !.nodes = @ \cup Prefixes(w.buf)]
    IN IF Max = <<>>
       THEN popValuesFromBuffer(forwardOtherValue(w0, w0.buf[1]), 1)
       ELSE popValuesFromBuffer(forwardAbbrevValue(w0, getAbbrevIndex(Max)), 1)

\* AbbrevAssignWriter::writeFromBuffer()
writeFromBuffer(w) ==
  IF w.buf = <<>> THEN w
  ELSE
    LET Max == MaxAbbrevNode(w.buf)
        \* lookup() creates every node the walk visits
        w0 == [w EXCEPT !.nodes = @ \cup Prefixes(w.buf)]
    IN IF Max = <<>>
       THEN popValuesFromBuffer(forwardOtherValue(w0, w0.buf[1]), 1)
       ELSE popValuesFromBuffer(forwardAbbrevValue(w0, getAbbrevIndex(Max)),
                                getPathLength(Max))

\* AbbrevAssignWriter::writeUntilBufferEmpty().  Every iteration that makes
\* progress removes at least one value, so Len(buf) iterations suffice; an
\* iteration that removes nothing repeats forever ("stuck").
RECURSIVE whileBufferNotEmpty(_, _)
whileBufferNotEmpty(w, fuel) ==
  IF w.buf = <<>> THEN w
  ELSE IF fuel = 0 THEN [w EXCEPT !.st = "stuck"]
  ELSE whileBufferNotEmpty(writeFromBuffer(w), fuel - 1)

writeUntilBufferEmpty(w) == whileBufferNotEmpty(w, Len(w.buf))

\* bufferValue that never flushes a full buffer
bufferValue_NoFlush(w, Value) ==
  IF Len(w.buf) >= LengthLimit THEN [w EXCEPT !.st = "abort"]
  ELSE [w EXCEPT !.buf = Append(@, Value)]

\* AbbrevAssignWriter::bufferValue(IntType Value)
bufferValue(w, Value) ==
  IF Len(w.buf) >= LengthLimit THEN [w EXCEPT !.st = "abort"]
  ELSE LET w1 == [w EXCEPT !.buf = Append(@, Value)]
       IN IF Len(w1.buf) < LengthLimit THEN w1 ELSE writeFromBuffer(w1)

\* AbbrevAssignWriter::writeFreezeEof()
writeFreezeEof(w) ==
  LET w1 == flushDefaultValues(writeUntilBufferEmpty(w))
  IN IF w1.st = "stuck" THEN w1
     ELSE [w1 EXCEPT !.out = Append(@, FreezeTok), !.st = "frozen"]

\* a block action that forwards its index without draining the buffer
writeBlockAction_NoDrain(w, s, assertsOn) ==
  IF assertsOn /\ SingAbbrev[s] = NoAbbrevIndex
  THEN [w EXCEPT !.st = "abort"]
  ELSE forwardAbbrevValue(w, SingAbbrev[s])

\* One Block_enter / Block_exit case of AbbrevAssignWriter::writeAction.
\* assertsOn: whether the build keeps assert() (no NDEBUG).
writeBlockAction(w, s, assertsOn) ==
  LET w1 == flushDefaultValues(writeUntilBufferEmpty(w))
  IN IF w1.st = "stuck" THEN w1
     ELSE IF assertsOn /\ SingAbbrev[s] = NoAbbrevIndex
     THEN [w1 EXCEPT !.st = "abort"]
     ELSE forwardAbbrevValue(w1, SingAbbrev[s])

\* AbbrevAssignWriter::writeAction(const CallbackNode* Action)
writeAction(w, Sym, assertsOn) ==
  CASE Sym = "Block_enter" -> writeBlockAction(w, "BlockEnter", assertsOn)
    [] Sym = "Block_exit" -> writeBlockAction(w, "BlockExit", assertsOn)
    [] OTHER -> [w EXCEPT !.out = Append(@, ActTok(Sym))]

(***************************************************************************)
(* Filter ASTs (filt::Node): a node has a type, its kids in order, and,    *)
(* for integer literals and Param, a value; a Symbol carries its name.     *)
(***************************************************************************)
Node(type, kids) == [type |-> type, kids |-> kids, val |-> 0, name |-> ""]
IntNode(type, v) == [type |-> type, kids |-> <<>>, val |-> v, name |-> ""]
SymNode(n) == [type |-> "OpSymbol", kids |-> <<>>, val |-> 0, name |-> n]

getNumKids(Nd) == Len(Nd.kids)

\* Nd->getKid(i), i counted from 0; only used where i < getNumKids(Nd)
getKid(Nd, i) == Nd.kids[i + 1]

IntegerNodeTypes == {"OpI32Const", "OpI64Const", "OpU8Const", "OpU32Const", "OpU64Const"}

\* the node types read and written as whole integers of one format
FormatOfType ==
  [OpUint8NoArgs |-> "Uint8", OpUint32NoArgs |-> "Uint32", OpUint64NoArgs |-> "Uint64",
   OpVarint32NoArgs |-> "Varint32", OpVarint64NoArgs |-> "Varint64",
   OpVaruint32NoArgs |-> "Varuint32", OpVaruint64NoArgs |-> "Varuint64"]

FormatNodeTypes == DOMAIN FormatOfType

(***************************************************************************)
(* Byte encodings of the integer formats (ByteWriteStream /                *)
(* ByteReadStream): fixed-width little endian, LEB128, signed LEB128.      *)
(* An IntType is represented by its two's-complement (signed) reading.     *)
(***************************************************************************)
RECURSIVE EncodeFixed(_, _)
EncodeFixed(v, n) ==
  IF n = 0 THEN <<>> ELSE <<v % 256>> \o EncodeFixed(v \div 256, n - 1)

RECURSIVE EncodeVaruint(_)
EncodeVaruint(v) ==
  IF v < 128 THEN <<v>> ELSE <<128 + (v % 128)>> \o EncodeVaruint(v \div 128)

RECURSIVE EncodeVarint(_)
EncodeVarint(v) ==
  IF v >= -64 /\ v < 64 THEN <<v % 128>>
  ELSE <<128 + (v % 128)>> \o EncodeVarint(v \div 128)

EncodeInt(f, v) ==
  CASE f = "Uint8" -> EncodeFixed(v, 1)
    [] f = "Uint32" -> EncodeFixed(v, 4)
    [] f = "Uint64" -> EncodeFixed(v, 8)
    [] f \in {"Varuint32", "Varuint64"} -> EncodeVaruint(v)
    [] f \in {"Varint32", "Varint64"} -> EncodeVarint(v)

\* the value of n little-endian bytes, the last one read as signed
RECURSIVE DecodeFixed(_)
DecodeFixed(bs) ==
  IF Len(bs) = 1 THEN (IF bs[1] >= 128 THEN bs[1] - 256 ELSE bs[1])
  ELSE bs[1] + 256 * DecodeFixed(Tail(bs))

FixedWidth(f) == IF f = "Uint8" THEN 1 ELSE IF f = "Uint32" THEN 4 ELSE 8

\* number of bytes of the LEB128 value that starts at bs[1]; 0 if the
\* bytes end before a byte without continuation bit
RECURSIVE LebLength(_)
LebLength(bs) ==
  IF bs = <<>> THEN 0
  ELSE IF bs[1] < 128 THEN 1
  ELSE LET n == LebLength(Tail(bs)) IN IF n = 0 THEN 0 ELSE n + 1

RECURSIVE DecodeVaruint(_)
DecodeVaruint(bs) ==
  IF Len(bs) = 1 THEN bs[1] % 128
  ELSE (bs[1] % 128) + 128 * DecodeVaruint(Tail(bs))

RECURSIVE DecodeVarint(_)
DecodeVarint(bs) ==
  IF Len(bs) = 1 THEN (IF bs[1] % 128 >= 64 THEN (bs[1] % 128) - 128 ELSE bs[1] % 128)
  ELSE (bs[1] % 128) + 128 * DecodeVarint(Tail(bs))

(***************************************************************************)
(* The interpreter's state, threaded through eval / read / write.          *)
(*   input, pos, eob : the input bytes, ReadPos and its EOB stack          *)
(*   out             : the bytes written through Writer at WritePos        *)
(*   wlog            : the write calls made on Writer, in order            *)
(*   lastRead        : LastReadValue                                       *)
(*   evalStack, paramStack, returnStack                                    *)
(*   st              : "ok"; "fatal" after fatal(); "fault" after an       *)
(*                     access the language leaves undefined; "eof" after   *)
(*                     a read past the end of the input; "abort" after a   *)
(*                     failed assertion; "diverged" when a loop does not   *)
(*                     end within the iterations followed                  *)
(*   defs            : Symbol::getDefineDefinition, by symbol name         *)
(*   asserts         : whether the build keeps assertions                  *)
(*   minimize        : MinimizeBlockSize                                   *)
(*   readerByte      : isa<ByteReadStream>(Reader.get())                   *)
(*   writerByte      : isa<ByteReadStream>(Writer.get())                   *)
(*   frozen          : ReadPos.isEofFrozen(): the input is complete        *)
(*   frame, frames   : Frame and the frames FrameStack saved under it      *)
(*   ev              : the alignment and freeze calls made, in order       *)
(*   frozenLen       : the length of the output when it was frozen         *)
(***************************************************************************)
\* the frame the constructor leaves in Frame, and Frame.reset()
BaseFrame == [Method |-> "Finished", State |-> "Enter", Nd |-> Node("OpVoid", <<>>)]

\* Frame.fail()
FailedFrame == [Method |-> "Finished", State |-> "Failed", Nd |-> Node("OpVoid", <<>>)]

NewInterp(input, pos) ==
  [input |-> input, pos |-> pos, eob |-> <<>>, out |-> <<>>, wlog |-> <<>>,
   lastRead |-> 0, evalStack |-> <<>>, paramStack |-> <<>>,
   returnStack |-> <<>>, defs |-> <<>>, asserts |-> TRUE, minimize |-> FALSE,
   readerByte |-> TRUE, writerByte |-> TRUE, frozen |-> TRUE, frame |-> BaseFrame, frames |-> <<>>,
   ev |-> <<>>, frozenLen |-> 0, st |-> "ok"]

R(s, v) == [s |-> s, v |-> v]

fatal(s) == [s EXCEPT !.st = "fatal"]

\* the address reads may not pass: the innermost EOB, else the end of input
CurEob(s) == IF s.eob = <<>> THEN Len(s.input) ELSE s.eob[Len(s.eob)]

\* ReadCursor::atReadBitEob / atByteEob
atReadBitEob(s) == s.pos >= CurEob(s)

\* Reader->readUint8 ... Reader->readVaruint64 at ReadPos
readInt(s, f) ==
  LET end == IF CurEob(s) < Len(s.input) THEN CurEob(s) ELSE Len(s.input)
      avail == SubSeq(s.input, s.pos + 1, end)
      n == IF f \in {"Uint8", "Uint32", "Uint64"} THEN FixedWidth(f) ELSE LebLength(avail)
  IN IF n = 0 \/ n > Len(avail)
     THEN IF ~s.frozen /\ end = Len(s.input) /\ (s.eob = <<>> \/ CurEob(s) > end)
          THEN R([s EXCEPT !.st = "suspended"], 0)
          ELSE R([s EXCEPT !.st = "eof", !.pos = CurEob(s)], 0)
     ELSE LET bs == SubSeq(avail, 1, n)
              v == CASE f \in {"Uint8", "Uint32", "Uint64"} -> DecodeFixed(bs)
                     [] f \in {"Varuint32", "Varuint64"} -> DecodeVaruint(bs)
                     [] OTHER -> DecodeVarint(bs)
          IN R([s EXCEPT !.pos = @ + n], IF f = "Uint8" THEN v % 256 ELSE v)

\* Writer->writeUint8 ... Writer->writeVaruint64 at WritePos
writeInt(s, f, v) ==
  [s EXCEPT !.out = @ \o EncodeInt(f, v), !.wlog = Append(@, IntTok(f, v))]

\* an access to a kid the node does not have, or to the top of an empty
\* stack: behaviour the language leaves undefined; evaluation yields
\* nothing usable
fault(s) == [s EXCEPT !.st = "fault"]

kResumeHeadroom == 100

\* Interpreter::hasEnoughHeadroom.  The sum is taken in size_t, where it
\* wraps only within kResumeHeadroom bytes of the top of the address
\* space; no buffer followed here reaches that far, so it is exact.
hasEnoughHeadroom(s) ==
  s.frozen \/ s.pos + kResumeHeadroom <= s.pos

\* Interpreter::Call: save Frame on FrameStack and enter the method
CallFrame(s, Method, Nd) ==
  [s EXCEPT !.frames = Append(@, s.frame),
            !.frame = [Method |-> Method, State |-> "Enter", Nd |-> Nd]]

\* FrameStack.pop(): Frame becomes the frame saved last
popFrame(s) ==
  IF s.frames = <<>> THEN fault(s)
  ELSE [s EXCEPT !.frame = s.frames[Len(s.frames)],
                 !.frames = SubSeq(@, 1, Len(@) - 1)]

\* Interpreter::pushReadReturnValue
pushReadReturnValue(s, v) == popFrame([s EXCEPT !.returnStack = Append(@, v)])

\* Interpreter::popArgAndReturnValue
popArgAndReturnValue(s, v) ==
  popFrame([s EXCEPT !.paramStack = SubSeq(@, 1, Len(@) - 1),
                     !.returnStack = Append(@, v)])

\* the tail of Interpreter::read and Interpreter::write: take the value
\* the frame returned off ReturnStack
popReturn(s) ==
  IF s.st # "ok" THEN R(s, 0)
  ELSE IF s.returnStack = <<>> THEN R([s EXCEPT !.st = "fault"], 0)
  ELSE R([s EXCEPT !.returnStack = SubSeq(@, 1, Len(@) - 1)],
         s.returnStack[Len(s.returnStack)])

hasKid(Nd, i) == i < getNumKids(Nd)

\* SwitchNode::getCase / OpcodeNode::getCase / MapNode::getCase: the Case
\* kid whose key is Value; CaseKids is empty when there is none
CaseKids(Nd, Value) ==
  { i \in 1..Len(Nd.kids) :
      /\ Nd.kids[i].type = "OpCase"
      /\ Len(Nd.kids[i].kids) >= 1
      /\ Nd.kids[i].kids[1].type \in IntegerNodeTypes
      /\ Nd.kids[i].kids[1].val = Value }

getCase(Nd, Value) ==
  LET i == CHOOSE i \in CaseKids(Nd, Value) : \A j \in CaseKids(Nd, Value) : i <= j
  IN Nd.kids[i]

\* the bound on the iterations of a loop that the model follows
LoopFuel(s) == Len(s.input) + 2

RECURSIVE eval(_, _)
RECURSIVE read(_, _)
RECURSIVE write(_, _, _)
RECURSIVE evalKids(_, _, _)
RECURSIVE evalLoop(_, _, _, _)
RECURSIVE evalLoopUnbounded(_, _, _)
RECURSIVE runRead(_, _)
RECURSIVE runWrite(_, _)
RECURSIVE writeStep(_, _)
RECURSIVE decompressBlock(_, _)

\* an assignment that leaves the cursor where the operand left it
swap_Keep(s, InitialPos) == s

\* ReadPos.swap(InitialPos): the cursor InitialPos was copied from
swap(s, InitialPos) == [s EXCEPT !.pos = InitialPos.pos, !.eob = InitialPos.eob]

\* the end of the OpPeek case: LastReadValue = (the value read, r);
\* ReadPos.swap(InitialPos); pushReadReturnValue(LastReadValue)
peekReturn(r, InitialPos) ==
  IF r.s.st # "ok" THEN r.s
  ELSE pushReadReturnValue(swap([r.s EXCEPT !.lastRead = r.v], InitialPos), r.v)

\* Interpreter::runMethods, case InterpMethod::Read
runRead(s, Nd) ==
  LET T == Nd.type IN
  CASE T \in IntegerNodeTypes -> pushReadReturnValue(s, Nd.val)
    [] T = "OpPeek" ->
         IF ~hasKid(Nd, 0) THEN fault(s)
         ELSE peekReturn(read(s, getKid(Nd, 0)), s)
    [] T = "OpLastRead" -> pushReadReturnValue(s, s.lastRead)
    [] T \in FormatNodeTypes ->
         LET r == readInt(s, FormatOfType[T])
         IN IF r.s.st # "ok" THEN r.s ELSE pushReadReturnValue(r.s, r.v)
    [] T = "OpVoid" -> pushReadReturnValue(s, 0)
    [] OTHER -> fatal(s)

\* Interpreter::read: Call, readBackFilled, then the value off ReturnStack.
\* readBackFilled spins while hasEnoughHeadroom is false; nothing in this
\* call can make it true, so the call stays there ("suspended").
read(s, Nd) ==
  IF s.st # "ok" THEN R(s, 0)
  ELSE LET c == CallFrame(s, "Read", Nd)
       IN IF ~hasEnoughHeadroom(c) THEN R([c EXCEPT !.st = "suspended"], 0)
          ELSE popReturn(runRead(c, Nd))

\* a getParam that takes the innermost frame, whatever its callee
getParam_TopFrame(s, P) ==
  IF s.evalStack # <<>> /\ P.val + 1 < getNumKids(s.evalStack[Len(s.evalStack)])
  THEN <<getKid(s.evalStack[Len(s.evalStack)], P.val + 1)>>
  ELSE <<>>

\* Interpreter::getParam; <<>> when it is fatal
getParam(s, P) ==
  LET Callers == { i \in 1..Len(s.evalStack) :
                     /\ getKid(s.evalStack[i], 0).name = P.name
                     /\ P.val + 1 < getNumKids(s.evalStack[i]) }
  IN IF Callers = {} THEN <<>>
     ELSE LET i == CHOOSE i \in Callers : \A j \in Callers : j <= i
          IN <<getKid(s.evalStack[i], P.val + 1)>>

\* OpcodeNode::getWriteCase: the bit width a case's body selects on
CaseShift(Case) ==
  LET b == IF Len(Case.kids) >= 2 THEN Case.kids[2].type ELSE "" IN
  CASE b = "OpUint8NoArgs" -> 8
    [] b \in {"OpUint32NoArgs", "OpUint64NoArgs"} -> 16
    [] OTHER -> 0

Pow2(n) == IF n = 0 THEN 1 ELSE IF n = 8 THEN 256 ELSE 65536

\* OpcodeNode::getWriteCase(Value, SelShift, CaseMask): the case whose
\* range of values holds Value, with its shift; no case gives shift 0
WriteCases(Nd, Value) ==
  { i \in 2..Len(Nd.kids) :
      /\ Nd.kids[i].type = "OpCase"
      /\ Len(Nd.kids[i].kids) >= 2
      /\ Nd.kids[i].kids[1].type \in IntegerNodeTypes
      /\ Value \div Pow2(CaseShift(Nd.kids[i])) = Nd.kids[i].kids[1].val }

getWriteCase(Nd, Value) ==
  IF WriteCases(Nd, Value) = {} THEN [found |-> FALSE, shift |-> 0, case |-> Nd]
  ELSE LET i == CHOOSE i \in WriteCases(Nd, Value) : \A j \in WriteCases(Nd, Value) : i <= j
       IN [found |-> TRUE, shift |-> CaseShift(Nd.kids[i]), case |-> Nd.kids[i]]

\* if (Case) write(Value & CaseMask, Case->getKid(1))
writeCase(s, wc, Value) ==
  IF wc.found THEN write(s, Value % Pow2(wc.shift), getKid(wc.case, 1)).s ELSE s

\* write(Value >> SelShift, Sel->getKid(0))
writeSelector(s, Nd, wc, Value) ==
  write(s, Value \div Pow2(wc.shift), getKid(Nd, 0)).s

\* an Opcode case that writes the case part before the selector part
writeOpcode_CaseFirst(s, Nd, wc, Value) ==
  writeSelector(writeCase(s, wc, Value), Nd, wc, Value)

\* the two writes of the Opcode case, in the order of the code
writeOpcode(s, Nd, wc, Value) ==
  writeCase(writeSelector(s, Nd, wc, Value), wc, Value)

\* FrameStack.pop() at the end of a case that got there
popIfOk(s) == IF s.st # "ok" THEN s ELSE popFrame(s)

\* Interpreter::runMethods, case InterpMethod::Write: one turn of the loop
writeStep(s, Nd) ==
  LET T == Nd.type
      Value == s.paramStack[Len(s.paramStack)]
  IN
  CASE T = "OpParam" ->
         LET p == getParam(s, Nd)
         IN IF s.frame.State = "Exit" THEN popFrame(s)
            ELSE IF s.frame.State # "Enter" \/ p = <<>> THEN fatal(s)
            ELSE CallFrame([s EXCEPT !.frame.State = "Exit"], "Write", p[1])
    [] T \in FormatNodeTypes ->
         popArgAndReturnValue(writeInt(s, FormatOfType[T], Value), Value)
    [] T \in IntegerNodeTypes \cup {"OpMap", "OpPeek", "OpVoid"} ->
         popArgAndReturnValue(s, Value)
    [] T = "OpOpcode" ->
         IF ~hasKid(Nd, 0) THEN fault(s)
         ELSE popIfOk(writeOpcode(s, Nd, getWriteCase(Nd, Value), Value))
    [] OTHER -> fatal(s)

\* the turns of the loop of Interpreter::runMethods that a Write frame
\* takes: until the frame that was current is popped
RECURSIVE runWriteUntil(_, _)
untilDepth(t, Depth) ==
  IF t.st # "ok" \/ Len(t.frames) < Depth THEN t ELSE runWriteUntil(t, Depth)

runWriteUntil(s, Depth) == untilDepth(writeStep(s, s.frame.Nd), Depth)

runWrite(s, Nd) == runWriteUntil(s, Len(s.frames))

\* readBackFilled for the Write frame just pushed: the frame is run, or
\* the call waits for headroom
writeBackFilled(c) ==
  IF hasEnoughHeadroom(c) THEN runWrite(c, c.frame.Nd)
  ELSE [c EXCEPT !.st = "suspended"]

\* the end of Interpreter::write: assert(Value == ReturnStack.back());
\* ReturnStack.pop_back(); return Value
writeReturn(t, Value) ==
  IF t.st # "ok" THEN R(t, 0)
  ELSE IF t.returnStack = <<>> THEN R(fault(t), 0)
  ELSE IF t.asserts /\ t.returnStack[Len(t.returnStack)] # Value
       THEN R([t EXCEPT !.st = "abort"], 0)
  ELSE R([t EXCEPT !.returnStack = SubSeq(@, 1, Len(@) - 1)], Value)

\* Interpreter::write
write(s, Value, Nd) ==
  IF s.st # "ok" THEN R(s, 0)
  ELSE writeReturn(
         writeBackFilled([CallFrame(s, "Write", Nd) EXCEPT !.paramStack = Append(@, Value)]),
         Value)

\* Writer->writeFixedBlockSize: a varuint32 padded to five bytes
FixedBlockSize(n) ==
  <<128 + (n % 128), 128 + ((n \div 128) % 128), 128 + ((n \div 16384) % 128),
    128 + ((n \div 2097152) % 128), 0>>

\* a copy that skips the bytes up to the EOB
copyToEob_Skip(s) == [s EXCEPT !.pos = IF @ < CurEob(s) THEN CurEob(s) ELSE @]

\* Interpreter::evalOrCopy with a null node: copy bytes up to the EOB
RECURSIVE copyToEob(_)
copyToEob(s) ==
  IF s.st # "ok" \/ atReadBitEob(s) THEN s
  ELSE LET r == readInt(s, "Uint8")
       IN IF r.s.st # "ok" THEN r.s ELSE copyToEob(writeInt(r.s, "Uint8", r.v))

\* Reader->pushEobAddress(ReadPos, Size)
pushEobAddress(s, Size) == [s EXCEPT !.eob = Append(@, s.pos + Size)]

\* ReadPos.popEobAddress()
popEobAddress(s) ==
  IF s.eob = <<>> THEN fault(s) ELSE [s EXCEPT !.eob = SubSeq(@, 1, Len(@) - 1)]

\* Writer->getBlockSize(BlockStart, WritePos): the bytes written after the
\* five reserved for the size
getBlockSize(BlockStart, WritePos) == WritePos - (BlockStart + 5)

\* the bytes of out from address Pos on replaced by bs
Patch(out, Pos, bs) ==
  [i \in 1..Len(out) |->
     IF i > Pos /\ i <= Pos + Len(bs) THEN bs[i - Pos] ELSE out[i]]

\* Writer->moveBlock(Pos, Address, Size): Size bytes from Address on are
\* copied to Pos, where the stream then ends; a byte never written reads 0
moveBlock(out, Pos, Address, Size) ==
  [i \in 1..(Pos + Size) |->
     IF i <= Pos THEN out[i]
     ELSE IF Address + (i - Pos) <= Len(out) THEN out[Address + (i - Pos)]
     ELSE 0]

\* a count that forgets the bytes the shorter size field saved
BlockMoveCount_KeepDiff(CurAddress, Diff, SizeAfterBackPatch) ==
  CurAddress - SizeAfterBackPatch

\* the third argument of moveBlock in Interpreter::decompressBlock
BlockMoveCount(CurAddress, Diff, SizeAfterBackPatch) ==
  (CurAddress - Diff) - SizeAfterBackPatch

\* Interpreter::evalOrCopy; Code is <<>> for a null node, else <<Nd>>
evalOrCopy(s, Code) == IF Code = <<>> THEN copyToEob(s) ELSE eval(s, Code[1]).s

\* the end of Interpreter::decompressBlock, from getBlockSize on: s is the
\* state evalOrCopy left, BlockStart the address of the reserved size
backPatchBlock(s, BlockStart) ==
  LET SizeAfterSizeWrite == BlockStart + 5
      NewSize == getBlockSize(BlockStart, Len(s.out))
      Fixed == Patch(s.out, BlockStart, FixedBlockSize(NewSize))
      Varint == Patch(s.out, BlockStart, EncodeVaruint(NewSize))
      SizeAfterBackPatch == BlockStart + Len(EncodeVaruint(NewSize))
      Diff == SizeAfterSizeWrite - SizeAfterBackPatch
      CurAddress == Len(s.out)
      Moved == moveBlock(Varint, SizeAfterBackPatch, SizeAfterSizeWrite,
                         BlockMoveCount(CurAddress, Diff, SizeAfterBackPatch))
  IN IF s.st # "ok" THEN s
     ELSE popEobAddress([s EXCEPT !.out = IF ~s.minimize THEN Fixed
                                          ELSE IF Diff # 0 THEN Moved ELSE Varint])

\* Interpreter::decompressBlock after Reader->readBlockSize, whose result
\* is r: the EOB is pushed, five bytes are reserved for the size, the
\* block is evaluated or copied and its size is back-patched
blockAfterSize(r, Code) ==
  IF r.s.st # "ok" THEN r.s
  ELSE backPatchBlock(
         evalOrCopy([pushEobAddress(r.s, r.v) EXCEPT !.out = @ \o FixedBlockSize(0)],
                    Code),
         Len(r.s.out))

\* Interpreter::decompressBlock; Code is <<>> for a null node, else <<Nd>>
decompressBlock(s, Code) == blockAfterSize(readInt(s, "Varuint32"), Code)

\* the kids of Nd from the i-th on, in order (i counted from 0)
evalKids(s, Nd, i) ==
  IF s.st # "ok" \/ ~hasKid(Nd, i) THEN s
  ELSE evalKids(eval(s, getKid(Nd, i)).s, Nd, i + 1)

\* the body of OpLoop, Count more times; an iteration that changes nothing
\* makes the remaining ones change nothing
evalLoop(s, Nd, Count, fuel) ==
  IF s.st # "ok" \/ Count = 0 THEN s
  ELSE LET t == evalKids(s, Nd, 1)
       IN IF t = s THEN s
          ELSE IF fuel = 0 THEN [t EXCEPT !.st = "diverged"]
          ELSE evalLoop(t, Nd, Count - 1, fuel - 1)

\* the body of OpLoopUnbounded: while (!ReadPos.atReadBitEob()); an
\* iteration that changes nothing repeats for ever
evalLoopUnbounded(s, Nd, fuel) ==
  IF s.st # "ok" \/ atReadBitEob(s) THEN s
  ELSE LET t == evalKids(s, Nd, 0)
       IN IF t = s \/ fuel = 0 THEN [t EXCEPT !.st = "diverged"]
          ELSE evalLoopUnbounded(t, Nd, fuel - 1)

Bool(b) == IF b THEN 1 ELSE 0

StreamIsByte(Nd) == Nd.name \in {"Input.Byte", "Output.Byte"}

\* StreamNode::getStreamKind
getStreamKind(Nd) ==
  IF Nd.name \in {"Input.Byte", "Input.Bit", "Input.Int", "Input.Ast"} THEN "Input"
  ELSE "Output"

\* case StreamKind::Output of the OpStream case
evalStreamOutput(s, Nd) ==
  IF StreamIsByte(Nd) THEN R(s, Bool(s.writerByte)) ELSE R(fatal(s), 0)

\* the OpStream case of Interpreter::eval: case StreamKind::Input ends
\* without a break, so control runs on into case StreamKind::Output
evalStream(s, Nd) ==
  IF getStreamKind(Nd) = "Input" /\ ~StreamIsByte(Nd) THEN R(fatal(s), 0)
  ELSE evalStreamOutput(s, Nd)


\* the head of the Eval case: the symbol, its definition and the number of
\* its parameters are looked up (the assertions), and the call is fatal
\* if the number of arguments is another
checkEval(s, Nd) ==
  IF ~hasKid(Nd, 0) \/ getKid(Nd, 0).type # "OpSymbol"
     \/ getKid(Nd, 0).name \notin DOMAIN s.defs
  THEN fault(s)
  ELSE LET Defn == s.defs[getKid(Nd, 0).name]
       IN IF ~hasKid(Defn, 1) \/ getKid(Defn, 1).type # "OpParam"
          THEN (IF s.asserts THEN [s EXCEPT !.st = "abort"] ELSE fault(s))
          ELSE IF getKid(Defn, 1).val # getNumKids(Nd) - 1 THEN fatal(s)
          ELSE s

\* EvalStack.push_back(Nd)
pushEvalStack(s, Nd) == [s EXCEPT !.evalStack = Append(@, Nd)]

\* a return from the definition that leaves the call on the stack
popEvalStack_Keep(r) == r

\* EvalStack.pop_back(), with the value of the definition
popEvalStack(r) == R([r.s EXCEPT !.evalStack = SubSeq(@, 1, Len(@) - 1)], r.v)

\* Interpreter::eval
eval(s, Nd) ==
  IF s.st # "ok" THEN R(s, 0) ELSE
  LET T == Nd.type
      k0 == getKid(Nd, 0)
      k1 == getKid(Nd, 1)
      k2 == getKid(Nd, 2)
  IN
  CASE T \in {"NO_SUCH_NODETYPE", "OpConvert", "OpFilter", "OpBlockEndNoArgs", "OpSymbol",
              "OpFile", "OpSection", "OpUndefine", "OpRename", "OpVersion",
              "OpUnknownSection"} -> R(fatal(s), 0)
    [] T = "OpParam" ->
         LET p == getParam(s, Nd)
         IN IF p = <<>> THEN R(fatal(s), 0) ELSE eval(s, p[1])
    [] T = "OpDefine" -> IF hasKid(Nd, 2) THEN eval(s, k2) ELSE R(fault(s), 0)
    [] T \in {"OpMap", "OpOpcode"} \cup FormatNodeTypes ->
         LET r == read(s, Nd) IN write(r.s, r.v, Nd)
    [] T \in {"OpLastRead", "OpPeek"} \cup IntegerNodeTypes -> read(s, Nd)
    [] T = "OpSwitch" ->
         IF ~hasKid(Nd, 1) THEN R(fault(s), 0)
         ELSE LET r == eval(s, k0)
              IN IF r.s.st # "ok" THEN R(r.s, 0)
                 ELSE IF CaseKids(Nd, r.v) # {}
                      THEN R(eval(r.s, getCase(Nd, r.v)).s, 0)
                 ELSE R(eval(r.s, k1).s, 0)
    [] T = "OpCase" ->
         IF hasKid(Nd, 1) THEN R(eval(s, k1).s, 0) ELSE R(fault(s), 0)
    [] T = "OpBlock" ->
         IF hasKid(Nd, 0) THEN R(decompressBlock(s, <<k0>>), 0) ELSE R(fault(s), 0)
    [] T = "OpAnd" ->
         LET a == eval(s, k0)
         IN IF a.v = 0 THEN R(a.s, 0)
            ELSE LET b == eval(a.s, k1) IN R(b.s, Bool(b.v # 0))
    [] T = "OpNot" -> LET a == eval(s, k0) IN R(a.s, Bool(a.v = 0))
    [] T = "OpOr" ->
         LET a == eval(s, k0)
         IN IF a.v # 0 THEN R(a.s, 1)
            ELSE LET b == eval(a.s, k1) IN R(b.s, Bool(b.v # 0))
    [] T = "OpStream" ->
         evalStream(s, Nd)
    [] T = "OpError" -> R(fatal(s), 0)
    [] T = "OpEval" ->
         IF checkEval(s, Nd).st # "ok" THEN R(checkEval(s, Nd), 0)
         ELSE popEvalStack(eval(pushEvalStack(s, Nd), s.defs[k0.name]))
    [] T = "OpIfThen" ->
         LET c == eval(s, k0)
         IN IF c.v # 0 THEN R(eval(c.s, k1).s, 0) ELSE R(c.s, 0)
    [] T = "OpIfThenElse" ->
         LET c == eval(s, k0)
         IN IF c.v # 0 THEN R(eval(c.s, k1).s, 0) ELSE R(eval(c.s, k2).s, 0)
    [] T = "OpLoop" ->
         IF ~hasKid(Nd, 0) THEN R(fault(s), 0)
         ELSE LET c == eval(s, k0) IN R(evalLoop(c.s, Nd, c.v, LoopFuel(s)), 0)
    [] T = "OpLoopUnbounded" -> R(evalLoopUnbounded(s, Nd, LoopFuel(s)), 0)
    [] T = "OpWrite" ->
         IF ~hasKid(Nd, 1) THEN R(fault(s), 0)
         ELSE LET r == read(s, k0) IN write(r.s, r.v, k1)
    [] T = "OpRead" ->
         IF ~hasKid(Nd, 1) THEN R(fault(s), 0) ELSE read(s, k1)
    [] T = "OpSequence" -> R(evalKids(s, Nd, 0), 0)
    [] OTHER -> R(s, 0)

\* Interpreter::readOpcodeSelector: the state, the value read into Value
\* and the bitsize returned.  The OneArg formats, which no node here has,
\* would return their argument.
RECURSIVE readOpcodeSelector(_, _)
readOpcodeSelector(s, Nd) ==
  LET T == Nd.type
      r == read(s, Nd)
      sized(n) == [s |-> r.s, v |-> r.v, size |-> n]
  IN CASE T = "OpUint8NoArgs" -> sized(8)
       [] T = "OpUint32NoArgs" -> sized(32)
       [] T = "OpUint64NoArgs" -> sized(64)
       [] T = "OpEval" ->
            IF ~hasKid(Nd, 0) THEN [s |-> fault(s), v |-> 0, size |-> 0]
            ELSE IF getKid(Nd, 0).type # "OpSymbol" THEN [s |-> fatal(s), v |-> 0, size |-> 0]
            ELSE IF getKid(Nd, 0).name \notin DOMAIN s.defs
                 THEN [s |-> fault(s), v |-> 0, size |-> 0]
            ELSE readOpcodeSelector(s, s.defs[getKid(Nd, 0).name])
       [] OTHER -> sized(0)

\* Interpreter::readOpcode after the selector, whose result is sel: the
\* value read becomes LastReadValue and, when NumOpcodes > 0, the prefix
\* is shifted in
opcodePrefix(sel, PrefixValue, NumOpcodes) ==
  IF sel.s.st # "ok" THEN sel.s
  ELSE IF NumOpcodes = 0 THEN [sel.s EXCEPT !.lastRead = sel.v]
  ELSE IF sel.size < 1 \/ sel.size >= 64 THEN fatal([sel.s EXCEPT !.lastRead = sel.v])
  ELSE [sel.s EXCEPT !.lastRead = sel.v + PrefixValue * Pow2(sel.size)]

\* LastReadValue = eval(Case), c the result of that eval
opcodeResult(c) ==
  IF c.s.st # "ok" THEN R(c.s, 0) ELSE R([c.s EXCEPT !.lastRead = c.v], c.v)

\* the end of Interpreter::readOpcode: the case of LastReadValue, if any
opcodeCase(s, Nd) ==
  IF s.st # "ok" THEN R(s, 0)
  ELSE IF CaseKids(Nd, s.lastRead) = {} THEN R(s, s.lastRead)
  ELSE opcodeResult(eval(s, getCase(Nd, s.lastRead)))

\* Interpreter::readOpcode.  LastReadValue |= PrefixValue << SelectorSize:
\* the value a selector of that size read is below 2^SelectorSize, so the
\* bits do not overlap and the or is a sum.
readOpcode(s, Nd, PrefixValue, NumOpcodes) ==
  IF s.st # "ok" THEN R(s, 0)
  ELSE IF Nd.type # "OpOpcode" THEN R(fatal(s), 0)
  ELSE IF ~hasKid(Nd, 0) THEN R(fault(s), 0)
  ELSE opcodeCase(
         opcodePrefix(readOpcodeSelector(s, getKid(Nd, 0)), PrefixValue, NumOpcodes),
         Nd)

(***************************************************************************)
(* Interpreter::decompress: the file header, then section after section.   *)
(***************************************************************************)
WasmBinaryMagic == 1836278016

WasmBinaryVersion == 11

\* char(Byte), for the bytes section names are made of here
CharOf(b) == CASE b = 97 -> "a" [] b = 98 -> "b" [] OTHER -> "?"

\* the loop of Interpreter::readSectionName: i bytes read and echoed;
\* the result carries the state and the name read so far
RECURSIVE readNameBytes(_, _, _)
readNameBytes(s, name, i) ==
  IF i = 0 \/ s.st # "ok" THEN R(s, name)
  ELSE LET r == readInt(s, "Uint8")
       IN IF r.s.st # "ok" THEN R(r.s, name)
          ELSE readNameBytes(writeInt(r.s, "Uint8", r.v), name \o CharOf(r.v), i - 1)

\* Interpreter::readSectionName; the value is CurSectionName
readSectionName(s) ==
  LET r == readInt(s, "Varuint32")
  IN IF r.s.st # "ok" THEN R(r.s, "")
     ELSE readNameBytes(writeInt(r.s, "Varuint32", r.v), "", r.v)

\* Reader->alignToByte(ReadPos) / Writer->alignToByte(WritePos): both
\* streams are byte streams, so the cursors stay where they are
alignToByte(s, which) == [s EXCEPT !.ev = Append(@, which)]

\* WritePos.freezeEof()
freezeEof(s) == [s EXCEPT !.ev = Append(@, "freezeEof"), !.frozenLen = Len(s.out)]

\* Symtab->getSymbol(CurSectionName) and its getDefineDefinition(), as
\* the argument of decompressBlock
sectionCode(s, name) == IF name \in DOMAIN s.defs THEN <<s.defs[name]>> ELSE <<>>

\* the end of Interpreter::decompressSection: both streams aligned
alignBoth(s) ==
  IF s.st # "ok" THEN s
  ELSE alignToByte(alignToByte(s, "alignReader"), "alignWriter")

\* Interpreter::decompressSection after readSectionName, whose result is n
sectionAfterName(n) ==
  IF n.s.st # "ok" THEN n.s
  ELSE alignBoth(decompressBlock(n.s, sectionCode(n.s, n.v)))

\* Interpreter::decompressSection
decompressSection(s) ==
  sectionAfterName(
    readSectionName([s EXCEPT !.lastRead = 0, !.ev = Append(@, "decompressSection")]))

\* while (!ReadPos.atByteEob()) decompressSection(); every section that
\* returns has read at least its name size
RECURSIVE decompressSections(_)
decompressSections(s) ==
  IF s.st # "ok" \/ atReadBitEob(s) THEN s
  ELSE decompressSections(decompressSection(s))

\* a header word echoed although it was not the word required
requireAndEcho_EchoFirst(s, Value, Known) ==
  IF Value # Known THEN fatal(writeInt(s, "Uint32", Value))
  ELSE writeInt(s, "Uint32", Value)

\* if (Value != Known) fatal(...); Writer->writeUint32(Value, WritePos);
requireAndEcho(s, Value, Known) ==
  IF Value # Known THEN fatal(s) ELSE writeInt(s, "Uint32", Value)

\* the output frozen before the sections are decompressed
sectionsThenFreeze_FreezeFirst(s) == decompressSections(freezeEof(s))

\* WritePos.freezeEof(), reached when the section loop returns
freezeIfOk(s) == IF s.st # "ok" THEN s ELSE freezeEof(s)

\* the tail of Interpreter::decompress: the section loop, then the freeze
sectionsThenFreeze(s) == freezeIfOk(decompressSections(s))

\* a header word read (r the result of Reader->readUint32), required to
\* be Known and echoed
headerWord(r, Known) ==
  IF r.s.st # "ok" THEN r.s ELSE requireAndEcho(r.s, r.v, Known)

\* Interpreter::decompress after the magic number, s the state it left
decompressAfterMagic(s) ==
  IF s.st # "ok" THEN s
  ELSE sectionsThenFreeze(headerWord(readInt(s, "Uint32"), WasmBinaryVersion))

\* Interpreter::decompress
decompress(s) ==
  decompressAfterMagic(
    headerWord(readInt([s EXCEPT !.lastRead = 0], "Uint32"), WasmBinaryMagic))

(***************************************************************************)
(* AbbreviationCodegen: the algorithm generated from the assignments the   *)
(* writer uses (IntAbbrev, SingAbbrev) and its flags.  No Huffman          *)
(* encoding root and no cism model.                                        *)
(***************************************************************************)
TypeOfFormat ==
  [Uint8 |-> "OpUint8NoArgs", Uint32 |-> "OpUint32NoArgs", Uint64 |-> "OpUint64NoArgs",
   Varint32 |-> "OpVarint32NoArgs", Varint64 |-> "OpVarint64NoArgs",
   Varuint32 |-> "OpVaruint32NoArgs", Varuint64 |-> "OpVaruint64NoArgs"]

\* the count nodes that have an abbreviation index
Assignments ==
  { [kind |-> "Int", path |-> p, sing |-> "", idx |-> IntAbbrev[p]] : p \in DOMAIN IntAbbrev }
  \cup { [kind |-> "Singleton", path |-> <<>>, sing |-> g, idx |-> SingAbbrev[g]] :
           g \in { g \in Singletons : SingAbbrev[g] # NoAbbrevIndex } }

\* the members of a set of count nodes, in the order of their index
RECURSIVE InIndexOrder(_)
InIndexOrder(A) ==
  IF A = {} THEN <<>>
  ELSE LET a == CHOOSE a \in A : \A b \in A : a.idx <= b.idx
       IN <<a>> \o InIndexOrder(A \ {a})

generateAbbrevFormat(AbbrevFormat) == Node(TypeOfFormat[AbbrevFormat], <<>>)

generateAbbreviationRead(ToRead) ==
  IF ToRead THEN Node("OpRead", <<generateAbbrevFormat(Flags.AbbrevFormat)>>)
  ELSE generateAbbrevFormat(Flags.AbbrevFormat)

generateIntType(Value) == IntNode("OpU64Const", Value)

\* IntCountNode::getParent / getValue of the node with this path
getParent(path) == SubSeq(path, 1, Len(path) - 1)

getValue(path) == path[Len(path)]

\* the node and its ancestors, the node first (the while loop)
RECURSIVE ParentChain(_)
ParentChain(path) ==
  IF path = <<>> THEN <<>> ELSE <<path>> \o ParentChain(getParent(path))

\* std::reverse
reverse(Vs) == [i \in 1..Len(Vs) |-> Vs[Len(Vs) + 1 - i]]

\* the ancestors are written as they were collected, the leaf first
IntLitPath_Unreversed(path) == ParentChain(path)

IntLitPath(path) == reverse(ParentChain(path))

generateIntLitActionRead(path) ==
  LET Vs == IntLitPath(path)
  IN Node("OpWrite", <<Node("OpVaruint64NoArgs", <<>>)>>
                       \o [i \in 1..Len(Vs) |-> generateIntType(getValue(Vs[i]))])

generateIntLitActionWrite == Node("OpVoid", <<>>)

generateIntLitAction(path, ToRead) ==
  IF ToRead THEN generateIntLitActionRead(path) ELSE generateIntLitActionWrite

generateUseAction(Sym) == Node("OpLiteralActionUse", <<SymNode(Sym)>>)

generateBlockAction(isEnter, ToRead) ==
  LET Sym == IF isEnter
             THEN (IF ToRead THEN "Block_enter" ELSE "Block_enter_writeonly")
             ELSE (IF ToRead THEN "Block_exit" ELSE "Block_exit_writeonly")
  IN Node("OpCallback", <<generateUseAction(Sym)>>)

generateDefaultSingleAction == Node("OpVarint64NoArgs", <<>>)

generateDefaultMultipleAction(ToRead) ==
  LET LoopSize == IF ToRead THEN Node("OpRead", <<Node("OpVaruint64NoArgs", <<>>)>>)
                  ELSE Node("OpVaruint64NoArgs", <<>>)
  IN Node("OpLoop", <<LoopSize, generateDefaultSingleAction>>)

generateAlignAction == Node("OpCallback", <<generateUseAction("Align")>>)

generateAction(Nd, ToRead) ==
  CASE Nd.kind = "Int" -> generateIntLitAction(Nd.path, ToRead)
    [] Nd.sing \in {"BlockEnter", "BlockExit"} ->
         generateBlockAction(Nd.sing = "BlockEnter", ToRead)
    [] Nd.sing = "DefaultSingle" -> generateDefaultSingleAction
    [] Nd.sing = "DefaultMultiple" -> generateDefaultMultipleAction(ToRead)
    [] Nd.sing = "Align" -> generateAlignAction
    [] OTHER -> Node("OpError", <<>>)

\* a case keyed 0 whatever the index of its node
generateCase_KeyZero(AbbrevIndex, Nd, ToRead) ==
  Node("OpCase", <<IntNode("OpU64Const", 0), generateAction(Nd, ToRead)>>)

generateCase(AbbrevIndex, Nd, ToRead) ==
  Node("OpCase", <<IntNode("OpU64Const", AbbrevIndex), generateAction(Nd, ToRead)>>)

generateSwitchStatement(ToRead) ==
  LET A == InIndexOrder(Assignments)
  IN Node("OpSwitch",
          <<generateAbbreviationRead(ToRead), Node("OpError", <<>>)>>
            \o [i \in 1..Len(A) |-> generateCase(A[i].idx, A[i], ToRead)])

generateStartFunction(ToRead) ==
  Node("OpDefine",
       <<SymNode("file"), Node("OpNoParams", <<>>), Node("OpNoLocals", <<>>),
         Node("OpLoopUnbounded", <<generateSwitchStatement(ToRead)>>)>>)

\* a U32Const holding one of the magic and version numbers, by its name
HeaderConst(Name) == [IntNode("OpU32Const", 0) EXCEPT !.name = Name]

\* AbbreviationCodegen::generateHeader
generateHeader(Type, MagicNumber, VersionNumber) ==
  IF Type \in {"OpSourceHeader", "OpReadHeader", "OpWriteHeader"}
  THEN Node(Type, <<HeaderConst(MagicNumber), HeaderConst(VersionNumber)>>)
  ELSE Node("OpVoid", <<>>)

generateOpcodeFunction(ToRead) ==
  Node("OpDefine",
       <<SymNode("opcode"), Node("OpNoParams", <<>>), Node("OpNoLocals", <<>>),
         generateAbbreviationRead(ToRead)>>)

CismDefaultSingleValue == 16767
CismDefaultMultipleValue == 16764
CismBlockEnterValue == 16768
CismBlockExitValue == 16769
CismAlignValue == 16770

generateMapCase(Index, Value) ==
  Node("OpCase", <<IntNode("OpU64Const", Index), IntNode("OpU32Const", Value)>>)

\* CatMap of generateCategorizeFunction: the category of an assignment,
\* 0 for the integer nodes, which get none
CatValue(Nd) ==
  CASE Nd.sing = "DefaultSingle" -> CismDefaultSingleValue
    [] Nd.sing = "DefaultMultiple" -> CismDefaultMultipleValue
    [] Nd.sing = "BlockEnter" -> CismBlockEnterValue
    [] Nd.sing = "BlockExit" -> CismBlockExitValue
    [] Nd.sing = "Align" -> CismAlignValue
    [] OTHER -> 0

generateCategorizeFunction ==
  LET A == InIndexOrder({ a \in Assignments : a.kind = "Singleton" })
  IN Node("OpDefine",
          <<SymNode("categorize"), IntNode("OpParamValues", 1), Node("OpNoLocals", <<>>),
            Node("OpMap", <<IntNode("OpParam", 0)>>
                            \o [i \in 1..Len(A) |-> generateMapCase(A[i].idx, CatValue(A[i]))])>>)

generateEnclosingAlg(Name) == Node("OpEnclosingAlgorithms", <<SymNode(Name)>>)

generateRename(From, To) == Node("OpRename", <<SymNode(From), SymNode(To)>>)

\* AbbreviationCodegen::generateFunctions: what it appends to the algorithm
generateFunctions(ToRead, UseCismModel) ==
  IF ~UseCismModel THEN <<generateStartFunction(ToRead)>>
  ELSE <<generateEnclosingAlg("cism"),
         generateRename("categorize", "categorize.old"),
         generateRename("opcode", "opcode.old"),
         generateOpcodeFunction(ToRead),
         generateCategorizeFunction>>

\* the read and write headers of getCodeSymtab
generateHeaders(ToRead, UseCismModel) ==
  IF UseCismModel
  THEN IF ToRead
       THEN <<generateHeader("OpReadHeader", "CismBinaryMagic", "CismBinaryVersion"),
              generateHeader("OpWriteHeader", "WasmBinaryMagic", "WasmBinaryVersionD")>>
       ELSE <<generateHeader("OpReadHeader", "WasmBinaryMagic", "WasmBinaryVersionD"),
              generateHeader("OpWriteHeader", "CismBinaryMagic", "CismBinaryVersion")>>
  ELSE <<generateHeader("OpReadHeader", "WasmBinaryMagic", "WasmBinaryVersionD")>>

\* AbbreviationCodegen::getCodeSymtab: the installed Algorithm
getCodeSymtab(ToRead, UseCismModel) ==
  [Alg |-> Node("OpAlgorithm",
                <<generateHeader("OpSourceHeader", "CasmBinaryMagic", "CasmBinaryVersion")>>
                  \o generateHeaders(ToRead, UseCismModel)
                  \o generateFunctions(ToRead, UseCismModel)),
   ToRead |-> ToRead, UseCismModel |-> UseCismModel, op |-> "getCodeSymtab"]

(***************************************************************************)
(* stream/StringWriter.cpp: a writer that appends to a string it is bound  *)
(* to, until it is frozen.                                                 *)
(***************************************************************************)
\* StringWriter::StringWriter(Str); ret is the result of the last call
\* op, arg, ret and before record the last call: its name, the bytes it was
\* given, its result, and Str and IsFrozen as they were when it was made
NewStringWriter(Str) ==
  [Str |-> Str, IsFrozen |-> FALSE, op |-> "new", arg |-> <<>>, ret |-> 0,
   before |-> [Str |-> Str, IsFrozen |-> FALSE], n |-> 0]

StringWriterCall(w, op, arg) ==
  [w EXCEPT !.op = op, !.arg = arg, !.before = [Str |-> w.Str, IsFrozen |-> w.IsFrozen],
            !.n = @ + 1]

\* the loop of write: Str.push_back(*(Buf++)) for each i < Size
RECURSIVE pushBytes(_, _, _, _)
pushBytes(Str, Buf, i, Size) ==
  IF i >= Size THEN Str ELSE pushBytes(Append(Str, Buf[i + 1]), Buf, i + 1, Size)

\* a write that does not look at IsFrozen
StringWriter_write_Unchecked(w, Buf, Size) ==
  [w EXCEPT !.Str = pushBytes(@, Buf, 0, Size), !.ret = 1]

\* StringWriter::write(Buf, Size); ret is 1 for true and 0 for false
StringWriter_write(w, Buf, Size) ==
  IF w.IsFrozen THEN [w EXCEPT !.ret = 0]
  ELSE [w EXCEPT !.Str = pushBytes(@, Buf, 0, Size), !.ret = 1]

\* StringWriter::freeze
StringWriter_freeze(w) == [w EXCEPT !.IsFrozen = TRUE, !.ret = 1]

\* StringWriter::atEof
StringWriter_atEof(w) == [w EXCEPT !.ret = IF w.IsFrozen THEN 1 ELSE 0]

\* StringWriter::read
StringWriter_read(w) == [w EXCEPT !.ret = 0]

(***************************************************************************)
(* interp/IntReader.cpp: a reader of an integer stream, with a stack of    *)
(* peek positions.  PeekPosStack is a ValueStack bound to PeekPos: push(v) *)
(* saves PeekPos on the stack and sets it to v, pop() sets PeekPos to the  *)
(* saved value.                                                            *)
(***************************************************************************)
\* IntReader::IntReader(Input): Pos at the start of Input, PeekPos a
\* default cursor.  pushedAt and op record, for each push still open, the
\* position it was made at, and the last operation.  Header is
\* Input->getHeader(); Value, ok, arg and hbefore record the last call of
\* readHeaderValue: what it left in Value, what it returned, the format
\* asked for and HeaderIndex as it was before the call.
NewIntReader(Input) ==
  [Input |-> Input, Pos |-> 0, PeekPos |-> 0, PeekPosStack |-> <<>>,
   pushedAt |-> <<>>, expect |-> 0, op |-> "new", ret |-> 0,
   Header |-> <<>>, HeaderIndex |-> 0, Value |-> 0, ok |-> FALSE, arg |-> "",
   hbefore |-> 0]

\* the call recorded, with Value = 0 ("default value for failure")
headerCall(r, Format) ==
  [r EXCEPT !.op = "readHeaderValue", !.arg = Format, !.hbefore = r.HeaderIndex,
            !.Value = 0, !.ok = FALSE]

\* auto Pair = Header[HeaderIndex++]
nextHeaderPair(r) == [r EXCEPT !.HeaderIndex = @ + 1]

\* IntReader::readHeaderValue(Format, Value)
readHeaderValue(r, Format) ==
  IF r.HeaderIndex >= Len(r.Header) THEN headerCall(r, Format)
  ELSE IF r.Header[r.HeaderIndex + 1].second # Format
       THEN nextHeaderPair(headerCall(r, Format))
  ELSE [nextHeaderPair(headerCall(r, Format))
          EXCEPT !.Value = r.Header[r.HeaderIndex + 1].first, !.ok = TRUE]

\* ValueStack::push(Value) and pop() of PeekPosStack
PeekPosStack_push(r, Value) ==
  [r EXCEPT !.PeekPosStack = Append(@, r.PeekPos), !.PeekPos = Value]

PeekPosStack_pop(r) ==
  [r EXCEPT !.PeekPos = r.PeekPosStack[Len(r.PeekPosStack)],
            !.PeekPosStack = SubSeq(@, 1, Len(@) - 1)]

\* IntReader::pushPeekPos
pushPeekPos(r) ==
  [PeekPosStack_push(r, r.PeekPos) EXCEPT !.pushedAt = Append(@, r.Pos),
                                         !.op = "pushPeekPos"]

\* IntReader::popPeekPos
popPeekPos(r) ==
  [PeekPosStack_pop([r EXCEPT !.Pos = r.PeekPos])
     EXCEPT !.expect = r.pushedAt[Len(r.pushedAt)],
            !.pushedAt = SubSeq(@, 1, Len(@) - 1),
            !.op = "popPeekPos"]

\* IntReader::sizePeekPosStack
sizePeekPosStack(r) == Len(r.PeekPosStack)

\* IntReader::read: Pos.read()
IntReader_read(r) ==
  [r EXCEPT !.ret = r.Input[r.Pos + 1], !.Pos = @ + 1, !.op = "read"]

(***************************************************************************)
(* sexp/FlattenAst.cpp: the serialisation of an installed algorithm to an  *)
(* integer stream.                                                         *)
(***************************************************************************)
\* FlattenAst::FlattenAst; out is what the IntWriter has received, ret the
\* result of flatten(), calls the number of calls of flatten() and errAt
\* the length of out when the first error was reported
NewFlattenAst ==
  [out |-> <<>>, HasErrors |-> FALSE, FreezeEofOnDestruct |-> TRUE,
   SectionSymtab |-> <<>>, ret |-> TRUE, op |-> "new", calls |-> 0, errAt |-> 0]

\* what the IntWriter receives: Writer->write of an opcode, of a value, of
\* the tag of a display format; writeUint8 of an opcode; writeHeaderValue;
\* writeAction; writeFreezeEof
OpcodeTok(Type) == [k |-> "opcode", t |-> Type, v |-> 0]
ValueTok(v) == [k |-> "value", t |-> "", v |-> v]
FormatTagTok(Format) == [k |-> "formatTag", t |-> Format, v |-> 1]
Uint8Tok(Type) == [k |-> "uint8", t |-> Type, v |-> 0]
HeaderTok(v, Format) == [k |-> "header", t |-> Format, v |-> v]
ActionTok(Sym) == [k |-> "action", t |-> Sym, v |-> 0]
FreezeEofTok == [k |-> "freezeEof", t |-> "", v |-> 0]

Emit(f, toks) == [f EXCEPT !.out = @ \o toks]

\* an integer literal with a display format, or in its default state
IntLit(Type, v, Format) ==
  [type |-> Type, kids |-> <<>>, val |-> v, name |-> "", format |-> Format,
   isDefault |-> FALSE]

DefaultLit(Type) ==
  [type |-> Type, kids |-> <<>>, val |-> 0, name |-> "", format |-> "Decimal",
   isDefault |-> TRUE]

\* IntegerNode::isDefaultValue / getFormat; a literal built with a value
\* (IntNode) is not at its default and displays as Decimal
isDefaultValue(Nd) == "isDefault" \in DOMAIN Nd /\ Nd.isDefault

getFormat(Nd) == IF "format" \in DOMAIN Nd THEN Nd.format ELSE "Decimal"

\* the node types of AST_INTEGERNODE_TABLE: the integer literals
IntegerTableTypes ==
  {"OpI32Const", "OpI64Const", "OpU8Const", "OpU32Const", "OpU64Const"}

\* IntegerNode::definesIntTypeFormat / getIntTypeFormat: the wire format a
\* literal's type stands for
LiteralFormat ==
  [OpI32Const |-> "Varint32", OpI64Const |-> "Varint64", OpU8Const |-> "Uint8",
   OpU32Const |-> "Uint32", OpU64Const |-> "Uint64"]

definesIntTypeFormat(Nd) == Nd.type \in DOMAIN LiteralFormat

getIntTypeFormat(Nd) == LiteralFormat[Nd.type]

\* the cases "written out in postorder, with a fixed number of arguments"
FixedArityTypes ==
  {"OpAnd", "OpBlock", "OpBitwiseAnd", "OpBitwiseNegate", "OpBitwiseOr", "OpBitwiseXor",
   "OpCallback", "OpCase", "OpConvert", "OpOr", "OpNot", "OpError", "OpIfThen",
   "OpIfThenElse", "OpLastSymbolIs", "OpLoop", "OpLoopUnbounded", "OpPeek", "OpRead",
   "OpUndefine", "OpLastRead", "OpRename", "OpSet", "OpLiteralDef", "OpLiteralUse",
   "OpVoid"}

\* the cases that "have a variable number of arguments"
VariableArityTypes ==
  {"OpDefine", "OpEval", "OpFilter", "OpOpcode", "OpMap", "OpSwitch", "OpSequence",
   "OpWrite"}

\* FlattenAst::reportError
reportError(f) ==
  [f EXCEPT !.HasErrors = TRUE, !.errAt = IF f.HasErrors THEN @ ELSE Len(f.out)]

\* the literal constants of a FileHeader, until one is refused
RECURSIVE flattenHeader(_, _, _)
flattenHeader(f, Nd, i) ==
  IF i >= getNumKids(Nd) THEN f
  ELSE IF getKid(Nd, i).type \notin IntegerTableTypes THEN reportError(f)
  ELSE IF ~definesIntTypeFormat(getKid(Nd, i)) THEN reportError(f)
  ELSE flattenHeader(Emit(f, <<HeaderTok(getKid(Nd, i).val,
                                         getIntTypeFormat(getKid(Nd, i)))>>),
                     Nd, i + 1)

\* SectionSymbolTable::installSection: the symbols of a section, each once,
\* in the order they are met
RECURSIVE SymbolsIn(_, _)
RECURSIVE SymbolsInKids(_, _, _)
SymbolsIn(Nd, seen) ==
  IF Nd.type = "OpSymbol"
  THEN (IF \E i \in 1..Len(seen) : seen[i] = Nd.name THEN seen ELSE Append(seen, Nd.name))
  ELSE SymbolsInKids(Nd, 0, seen)

SymbolsInKids(Nd, i, seen) ==
  IF i >= getNumKids(Nd) THEN seen
  ELSE SymbolsInKids(Nd, i + 1, SymbolsIn(getKid(Nd, i), seen))

\* SectionSymbolTable::getSymbolIndex
getSymbolIndex(f, Name) ==
  IF \E i \in 1..Len(f.SectionSymtab) : f.SectionSymtab[i] = Name
  THEN (CHOOSE i \in 1..Len(f.SectionSymtab) : f.SectionSymtab[i] = Name) - 1
  ELSE Len(f.SectionSymtab)

\* the size and the names of the symbol vector; a name is written as its
\* length (names here have one character, written as the name)
RECURSIVE SymbolVector(_)
SymbolVector(Vector) ==
  IF Vector = <<>> THEN <<>>
  ELSE <<ValueTok(1), [k |-> "char", t |-> Vector[1], v |-> 0]>> \o SymbolVector(Tail(Vector))

\* the opcode and the kid count of a variable-arity operator
writeVariableArity_NoCount(f, Nd) == Emit(f, <<OpcodeTok(Nd.type)>>)

writeVariableArity(f, Nd) == Emit(f, <<OpcodeTok(Nd.type), ValueTok(getNumKids(Nd))>>)

\* the end of a Section
closeSection(f, Nd) ==
  [Emit(f, <<Uint8Tok(Nd.type), ActionTok("BlockExit")>>) EXCEPT !.SectionSymtab = <<>>]

\* FlattenAst::flattenNode
RECURSIVE flattenNode(_, _)
RECURSIVE flattenKids(_, _, _)
flattenNode(f, Nd) ==
  IF f.HasErrors THEN f
  ELSE CASE Nd.type \in {"NO_SUCH_NODETYPE", "OpUnknownSection"} ->
              reportError(reportError(f))
         [] Nd.type \in IntegerTableTypes ->
              IF isDefaultValue(Nd) THEN Emit(f, <<OpcodeTok(Nd.type), ValueTok(0)>>)
              ELSE Emit(f, <<OpcodeTok(Nd.type), FormatTagTok(getFormat(Nd)),
                             ValueTok(Nd.val)>>)
         [] Nd.type \in FixedArityTypes ->
              Emit(flattenKids(f, Nd, 0), <<OpcodeTok(Nd.type)>>)
         [] Nd.type = "OpFile" -> flattenKids(f, Nd, 0)
         [] Nd.type = "OpFileHeader" -> flattenHeader(f, Nd, 0)
         [] Nd.type = "OpStream" -> Emit(f, <<OpcodeTok(Nd.type), ValueTok(Nd.val)>>)
         [] Nd.type = "OpSection" ->
              closeSection(
                flattenKids(
                  [Emit(f, <<ActionTok("BlockEnter"),
                             ValueTok(Len(SymbolsIn(Nd, <<>>)))>>
                             \o SymbolVector(SymbolsIn(Nd, <<>>)))
                     EXCEPT !.SectionSymtab = SymbolsIn(Nd, <<>>)],
                  Nd, 0),
                Nd)
         [] Nd.type \in VariableArityTypes ->
              writeVariableArity(flattenKids(f, Nd, 0), Nd)
         [] Nd.type = "OpSymbol" ->
              Emit(f, <<OpcodeTok(Nd.type), ValueTok(getSymbolIndex(f, Nd.name))>>)
         [] OTHER -> f

flattenKids(f, Nd, i) ==
  IF i >= getNumKids(Nd) THEN f
  ELSE flattenKids(flattenNode(f, getKid(Nd, i)), Nd, i + 1)

\* a freezeOutput that does not look at FreezeEofOnDestruct
freezeOutput_Always(f) ==
  [Emit(f, <<FreezeEofTok>>) EXCEPT !.FreezeEofOnDestruct = FALSE]

\* FlattenAst::freezeOutput
freezeOutput(f) ==
  IF ~f.FreezeEofOnDestruct THEN f
  ELSE [Emit(f, <<FreezeEofTok>>) EXCEPT !.FreezeEofOnDestruct = FALSE]

\* the result of flatten(), recorded
returnNotHasErrors(f) ==
  [f EXCEPT !.ret = ~f.HasErrors, !.op = "flatten", !.calls = @ + 1]

\* FlattenAst::flatten, on the installed root
flatten(f, Root) == returnNotHasErrors(freezeOutput(flattenNode(f, Root)))

\* no algorithm generated or installed
NoSymtab == [Alg |-> Node("OpVoid", <<>>), ToRead |-> FALSE, UseCismModel |-> FALSE,
             op |-> "none"]

\* the components a run does not use
IdleCodegen == Symtab = NoSymtab /\ Flat = NewFlattenAst

\* IntCompressor: Input is "null" or "reader", errors what
\* Input->errorsFound() returns; found is the result of the last call of
\* errorsFound(): "true", "false", or "fault" when the call did not return
NewIntCompressor(Input, errors) ==
  [Input |-> Input, errors |-> errors, CountCutoff |-> 0, WeightCutoff |-> 0,
   LengthLimit |-> 0, op |-> "new", found |-> "false"]

\* IntCompressor::setCountCutoff / setWeightCutoff / setLengthLimit
setCountCutoff(c, NewCutoff) == [c EXCEPT !.CountCutoff = NewCutoff, !.op = "setCountCutoff"]

setWeightCutoff(c, NewCutoff) == [c EXCEPT !.WeightCutoff = NewCutoff, !.op = "setWeightCutoff"]

setLengthLimit(c, NewLimit) == [c EXCEPT !.LengthLimit = NewLimit, !.op = "setLengthLimit"]

\* IntCompressor::errorsFound: Input == nullptr && Input->errorsFound().
\* With a reader the first operand is false; without one the second
\* operand calls through the null pointer, which may end the run or
\* return either value.
errorsFound(c) ==
  IF c.Input = "null" THEN {"fault", "true", "false"} ELSE {"false"}

IdleCompressor == Comp = NewIntCompressor("null", FALSE)

IdleStreams ==
  StrW = NewStringWriter(<<>>) /\ IntRd = NewIntReader(<<>>) /\ IdleCompressor

(***************************************************************************)
(* The rewriter as a state machine: one action per public operation.       *)
(***************************************************************************)
Op(k, v) == [k |-> k, v |-> v]

Install(w, op) ==
  /\ Buffer' = w.buf
  /\ DefaultValues' = w.dv
  /\ Out' = w.out
  /\ Nodes' = w.nodes
  /\ status' = w.st
  /\ Hist' = Append(Hist, op)
  /\ UNCHANGED <<LengthLimit, Flags, IntAbbrev, SingAbbrev>>
  /\ UNCHANGED <<ivars, gvars, svars>>

CanCall == status = "open" /\ Len(Hist) < MaxOps

\* writeUint8 / writeUint32 / writeUint64 / writeVarint32 / writeVarint64 /
\* writeVaruint32 / writeVaruint64 / writeValue(Value, Node*)
WriteInt ==
  /\ CanCall
  /\ \E v \in Values : Install(bufferValue(Cur, v), Op("int", v))

ActionSymbols == {"Block_enter", "Block_exit", "Align"}

WriteActionIn(builds, syms) ==
  /\ CanCall
  /\ \E Sym \in syms : \E assertsOn \in builds :
       Install(writeAction(Cur, Sym, assertsOn), Op(Sym, 0))

\* writeAction(Block_enter / Block_exit), in a build with or without NDEBUG
WriteBlockActionCall == WriteActionIn(BOOLEAN, {"Block_enter", "Block_exit"})

\* writeAction of any action, in a build that keeps its assertions
WriteActionChecked == WriteActionIn({TRUE}, ActionSymbols)

WriteFreezeEofCall ==
  /\ CanCall
  /\ Install(writeFreezeEof(Cur), Op("freeze", 0))

ChooseNodes(missing) ==
  /\ LengthLimit \in 1..MaxLengthLimit
  /\ \E P \in SubsetsUpTo(PathsUpTo(LengthLimit), MaxAbbrevs) :
       /\ IntAbbrev = NumberPaths(P)
       /\ Nodes = UNION { Prefixes(p) : p \in P }
  /\ \E M \in missing :
       SingAbbrev = [s \in Singletons |->
                       IF s \in M THEN NoAbbrevIndex ELSE SingletonIndex(s)]

ChooseTrie(missing) == Flags \in FlagChoices /\ ChooseNodes(missing)

Call(m, nd, v) == [m |-> m, nd |-> nd, v |-> v]

\* an Interpreter that has been given nothing to do
IdleInterp ==
  /\ Interp = NewInterp(<<>>, 0)
  /\ Prev = NewInterp(<<>>, 0)
  /\ LastCall = Call("none", Node("OpVoid", <<>>), 0)
  /\ NumCalls = 0

FreshWriter ==
  /\ Buffer = <<>>
  /\ DefaultValues = <<>>
  /\ Out = <<>>
  /\ Hist = <<>>
  /\ status = "open"

\* Every singleton has an abbreviation index; the caller writes integers
\* and block actions.
Init == ChooseTrie({{}}) /\ FreshWriter /\ IdleInterp /\ IdleCodegen /\ IdleStreams

Next == WriteInt \/ WriteBlockActionCall \/ WriteFreezeEofCall

Spec == Init /\ [][Next]_vars

\* At most one singleton lacks its abbreviation index; assertions are kept;
\* the caller writes integers and any action.
InitMissing ==
  /\ ChooseTrie({{}} \cup { {s} : s \in Singletons }) /\ FreshWriter /\ IdleInterp
  /\ IdleCodegen /\ IdleStreams

NextMissing == WriteInt \/ WriteActionChecked \/ WriteFreezeEofCall

SpecMissing == InitMissing /\ [][NextMissing]_vars

(***************************************************************************)
(* The Interpreter as a state machine: the caller makes eval, read and     *)
(* write calls on nodes, over an input that is complete (EOF-frozen).      *)
(***************************************************************************)
MaxInputLen == 2
MaxCalls == 2

InputBytes == {0, 1, 129}

RECURSIVE SeqsUpTo(_, _)
SeqsUpTo(S, n) ==
  IF n = 0 THEN {<<>>}
  ELSE LET T == SeqsUpTo(S, n - 1)
       IN T \cup { Append(t, x) : t \in { t \in T : Len(t) = n - 1 }, x \in S }

\* the operands and nodes the caller uses
LeafNodes ==
  { Node(t, <<>>) : t \in {"OpUint8NoArgs", "OpUint32NoArgs", "OpVaruint32NoArgs",
                            "OpVarint64NoArgs", "OpLastRead", "OpVoid", "OpMap"} }
  \cup { IntNode("OpU8Const", 7) }

Operands == LeafNodes \cup { Node("OpPeek", <<e>>) : e \in LeafNodes }

TestNodes ==
  Operands
  \cup { Node("OpPeek", <<e>>) : e \in Operands }
  \cup { Node("OpWrite", <<Node("OpPeek", <<Node("OpUint8NoArgs", <<>>)>>),
                           Node("OpVaruint32NoArgs", <<>>)>>) }

InstallInterp(s, c) ==
  /\ Interp' = s
  /\ Prev' = Interp
  /\ LastCall' = c
  /\ NumCalls' = NumCalls + 1
  /\ UNCHANGED <<wvars, gvars, svars>>

CanCallInterp == Interp.st = "ok" /\ NumCalls < MaxCalls

\* Interpreter::eval(Nd)
EvalCall ==
  /\ CanCallInterp
  /\ \E nd \in TestNodes : InstallInterp(eval(Interp, nd).s, Call("eval", nd, 0))

\* Interpreter::read(Nd)
ReadCall ==
  /\ CanCallInterp
  /\ \E nd \in TestNodes : InstallInterp(read(Interp, nd).s, Call("read", nd, 0))

\* Interpreter::write(Value, Nd)
WriteCall ==
  /\ CanCallInterp
  /\ \E nd \in TestNodes : \E v \in Values :
       InstallInterp(write(Interp, v, nd).s, Call("write", nd, v))

\* a writer that is not used, and an Interpreter over some input
InitInterp ==
  /\ LengthLimit = 1
  /\ Flags \in FlagChoices
  /\ IntAbbrev = <<>>
  /\ Nodes = {}
  /\ SingAbbrev = [s \in Singletons |-> SingletonIndex(s)]
  /\ FreshWriter
  /\ IdleCodegen /\ IdleStreams
  /\ \E input \in SeqsUpTo(InputBytes, MaxInputLen) : Interp = NewInterp(input, 0)
  /\ Prev = Interp
  /\ LastCall = Call("none", Node("OpVoid", <<>>), 0)
  /\ NumCalls = 0

NextInterp == EvalCall \/ ReadCall \/ WriteCall

SpecInterp == InitInterp /\ [][NextInterp]_vars

(***************************************************************************)
(* Interpreter::decompress and the evaluation of blocks, as a state        *)
(* machine over files: a header, then up to MaxSections sections, each a   *)
(* name and a framed block.                                                *)
(***************************************************************************)
MaxSections == 2

\* Interpreter::fail: every saved frame is popped, then Frame.fail()
RECURSIVE popAllFrames(_)
popAllFrames(s) == IF s.frames = <<>> THEN s ELSE popAllFrames(popFrame(s))

\* a fail that pops one frame only
fail_PopOne(s) ==
  [(IF s.frames = <<>> THEN s ELSE popFrame(s)) EXCEPT !.frame = FailedFrame,
                                                       !.st = "failed"]

fail(s) == [popAllFrames(s) EXCEPT !.frame = FailedFrame, !.st = "failed"]

RECURSIVE Concat(_)
Concat(ss) == IF ss = <<>> THEN <<>> ELSE Head(ss) \o Concat(Tail(ss))

Headers ==
  { EncodeFixed(m, 4) \o EncodeFixed(v, 4) :
      m \in {WasmBinaryMagic, WasmBinaryMagic + 1},
      v \in {WasmBinaryVersion, WasmBinaryVersion + 1} }

SectionNames == {<<>>, <<97>>}

BlockBodies == {<<>>, <<7>>, <<170, 187, 204>>}

\* a block with its byte length in front
Framed(body) == EncodeVaruint(Len(body)) \o body

\* sections, the last one declaring a block longer than the bytes it has
Sections ==
  { EncodeVaruint(Len(n)) \o n \o Framed(b) : n \in SectionNames, b \in BlockBodies }
  \cup { <<0, 2, 7>> }

FileInputs ==
  { h \o Concat(ss) : h \in Headers, ss \in SeqsUpTo(Sections, MaxSections) }

\* a selector byte and a continuation byte
OpcodeInputs == { <<0, 66>>, <<1, 66>>, <<1>> }

\* inputs that start with a block, and one that does not
BlockInputs ==
  { Framed(b) : b \in BlockBodies }
  \cup { <<170, 187, 204>>, <<2, 1, 7>>, <<131, 128, 128, 128, 0, 170, 187, 204>> }

\* the bodies of blocks and of section definitions
BlockCode ==
  { Node("OpLoop", <<IntNode("OpU64Const", 3), Node("OpUint8NoArgs", <<>>)>>),
    Node("OpLoopUnbounded", <<Node("OpUint8NoArgs", <<>>)>>),
    Node("OpUint8NoArgs", <<>>),
    Node("OpVoid", <<>>),
    Node("OpError", <<>>),
    Node("OpBlock", <<Node("OpUint8NoArgs", <<>>)>>) }

BlockNodes == { Node("OpBlock", <<c>>) : c \in BlockCode }

\* the symbol table: no definition, or section "a" defined
SymbolTables ==
  { <<>> } \cup
  { [n \in {"a"} |-> Node("OpDefine", <<SymNode("a"), IntNode("OpParam", 0), c>>)] :
      c \in {Node("OpLoopUnbounded", <<Node("OpUint8NoArgs", <<>>)>>),
              Node("OpError", <<>>)} }

\* Interpreter::decompress(), on an input that is complete
DecompressCall ==
  /\ Interp.st = "ok" /\ NumCalls = 0 /\ Interp.frozen
  /\ InstallInterp(decompress(Interp), Call("decompress", Node("OpVoid", <<>>), 0))

\* Interpreter::eval(Nd) for a Block
EvalBlockCall ==
  /\ Interp.st = "ok" /\ NumCalls = 0
  /\ \E nd \in BlockNodes : InstallInterp(eval(Interp, nd).s, Call("eval", nd, 0))

\* an Opcode over a byte selector, with no case or a case for selector k
\* whose body reads one more byte
OpcodeNodes ==
  { Node("OpOpcode", <<Node("OpUint8NoArgs", <<>>)>>) } \cup
  { Node("OpOpcode", <<Node("OpUint8NoArgs", <<>>),
                       Node("OpCase", <<IntNode("OpU64Const", k),
                                        Node("OpUint8NoArgs", <<>>)>>)>>) :
      k \in {0, 1, 257} }

\* Interpreter::readOpcode(Nd, PrefixValue, NumOpcodes): the first selector
\* read (no prefix, NumOpcodes 0 or 1) or a later one (NumOpcodes 1)
ReadOpcodeCall ==
  /\ Interp.st = "ok" /\ NumCalls = 0
  /\ \E nd \in OpcodeNodes : \E pre \in {0, 1} : \E n \in {0, 1} :
       /\ n = 0 => pre = 0
       /\ InstallInterp(readOpcode(Interp, nd, pre, n).s, Call("readOpcode", nd, pre))

\* Interpreter::fail(), from whoever gives up on a call that waits for input
FailCall ==
  /\ Interp.st = "suspended"
  /\ InstallInterp(fail(Interp), Call("fail", Node("OpVoid", <<>>), 0))

UnusedWriter ==
  /\ LengthLimit = 1
  /\ Flags = CHOOSE f \in FlagChoices : TRUE
  /\ IntAbbrev = <<>>
  /\ Nodes = {}
  /\ SingAbbrev = [s \in Singletons |-> SingletonIndex(s)]
  /\ FreshWriter

InitFile ==
  /\ UnusedWriter
  /\ IdleCodegen /\ IdleStreams
  /\ \E input \in FileInputs \cup BlockInputs \cup OpcodeInputs : \E defs \in SymbolTables :
       \E min \in BOOLEAN : \E fr \in BOOLEAN :
         Interp = [NewInterp(input, 0) EXCEPT !.defs = defs, !.minimize = min,
                                              !.frozen = fr]
  /\ Prev = Interp
  /\ LastCall = Call("none", Node("OpVoid", <<>>), 0)
  /\ NumCalls = 0

NextFile == DecompressCall \/ EvalBlockCall \/ ReadOpcodeCall \/ FailCall

SpecFile == InitFile /\ [][NextFile]_vars

(***************************************************************************)
(* The backfilled driver: read / write call Interpreter::Call and then     *)
(* wait in readBackFilled until hasEnoughHeadroom, while a producer        *)
(* appends chunks to the input and in the end freezes it.  The loop of     *)
(* runMethods is followed turn by turn.                                    *)
(***************************************************************************)
MaxChunks == 2

MaxDriverCalls == 2

\* the bytes the producer appends at a time: half the headroom, so that
\* the headroom is reached between two chunks
ChunkSize == kResumeHeadroom \div 2

\* one turn of the loop of Interpreter::runMethods
stepMethods(s) ==
  CASE s.frame.Method = "Eval" -> fatal(s)
    [] s.frame.Method = "Finished" ->
         IF s.asserts /\ s.frames # <<>> THEN [s EXCEPT !.st = "abort"] ELSE s
    [] s.frame.Method = "Read" -> runRead(s, s.frame.Nd)
    [] s.frame.Method = "Write" -> writeStep(s, s.frame.Nd)
    [] OTHER -> fatal(s)

\* needsMoreInput() && !isFinished(): a frame is still to be run
Pending(s) == s.frame.Method # "Finished"

\* what read / write do once readBackFilled returns
callTail(s, c) ==
  CASE c.m = "Read" -> popReturn(s).s
    [] c.m = "Write" -> writeReturn(s, c.v).s
    [] OTHER -> s

\* Param(0) of f, and the call Eval(f, Uint8NoArgs) it is evaluated in
ParamNode == [IntNode("OpParam", 0) EXCEPT !.name = "f"]

EvalFrame == Node("OpEval", <<SymNode("f"), Node("OpUint8NoArgs", <<>>)>>)

DriverNodes ==
  { Node("OpUint8NoArgs", <<>>), Node("OpVoid", <<>>), ParamNode,
    Node("OpPeek", <<Node("OpUint8NoArgs", <<>>)>>) }

\* the head of Interpreter::read / write, or a Call with method Eval: the
\* frame is pushed and the call waits in readBackFilled
StartCall ==
  /\ Interp.st = "ok" /\ ~Pending(Interp) /\ NumCalls < MaxDriverCalls
  /\ \E m \in {"Read", "Write", "Eval"} : \E nd \in DriverNodes :
       LET c == CallFrame(Interp, m, nd)
       IN InstallInterp(IF m = "Write" THEN [c EXCEPT !.paramStack = Append(@, 1)] ELSE c,
                        Call(m, nd, 1))

\* a turn of runMethods, taken when the wait loop of readBackFilled is
\* left; the call returns when no frame is left to run
RunStep ==
  /\ Interp.st = "ok" /\ Pending(Interp) /\ hasEnoughHeadroom(Interp)
  /\ LET t == stepMethods(Interp)
     IN Interp' = IF t.st = "ok" /\ ~Pending(t) THEN callTail(t, LastCall) ELSE t
  /\ UNCHANGED <<wvars, Prev, LastCall, NumCalls, gvars, svars>>

\* the producer appends a chunk
ProducerExtend ==
  /\ ~Interp.frozen /\ Len(Interp.input) < MaxChunks * ChunkSize
  /\ Interp' = [Interp EXCEPT !.input = @ \o [i \in 1..ChunkSize |-> 1]]
  /\ UNCHANGED <<wvars, Prev, LastCall, NumCalls, gvars, svars>>

\* the producer freezes the end of the input
ProducerFreeze ==
  /\ ~Interp.frozen
  /\ Interp' = [Interp EXCEPT !.frozen = TRUE]
  /\ UNCHANGED <<wvars, Prev, LastCall, NumCalls, gvars, svars>>

\* Interpreter::fail(), while frames are live
DriverFail ==
  /\ Interp.st = "ok" /\ Pending(Interp)
  /\ InstallInterp(fail(Interp), Call("fail", Node("OpVoid", <<>>), 0))

InitDriver ==
  /\ UnusedWriter
  /\ IdleCodegen /\ IdleStreams
  /\ Interp = [NewInterp(<<>>, 0) EXCEPT !.frozen = FALSE, !.evalStack = <<EvalFrame>>]
  /\ Prev = Interp
  /\ LastCall = Call("none", Node("OpVoid", <<>>), 0)
  /\ NumCalls = 0

NextDriver == StartCall \/ RunStep \/ ProducerExtend \/ ProducerFreeze \/ DriverFail

SpecDriver == InitDriver /\ [][NextDriver]_vars

(***************************************************************************)
(* Calls and parameters: the caller evaluates Eval, Read and Param nodes   *)
(* over a symbol table of five definitions.  Besides whole calls of eval,  *)
(* the Eval case is followed in two steps, its head up to the push on      *)
(* EvalStack and its pop, so that what is evaluated in between (the body   *)
(* of the definition, here any node of the model) runs inside the call.    *)
(***************************************************************************)
MaxEvalDepth == 2

ParamOf(Sym, i) == [IntNode("OpParam", i) EXCEPT !.name = Sym]

DefineOf(Sym, NumParams, Body) ==
  Node("OpDefine", <<SymNode(Sym), IntNode("OpParam", NumParams), Body>>)

\* f calls g, whose body is the parameter of f; h returns its own
\* parameter; k asks for a parameter it does not have; m has none
CallDefs ==
  [Sym \in {"f", "g", "h", "k", "m"} |->
     CASE Sym = "f" -> DefineOf("f", 1, Node("OpEval", <<SymNode("g"), IntNode("OpU8Const", 9)>>))
       [] Sym = "g" -> DefineOf("g", 1, ParamOf("f", 0))
       [] Sym = "h" -> DefineOf("h", 1, ParamOf("h", 0))
       [] Sym = "k" -> DefineOf("k", 1, ParamOf("k", 1))
       [] Sym = "m" -> DefineOf("m", 0, Node("OpUint8NoArgs", <<>>))]

ArgNodes == { IntNode("OpU8Const", 7), IntNode("OpU8Const", 9), Node("OpUint8NoArgs", <<>>) }

\* the calls followed step by step
FrameNodes ==
  { Node("OpEval", <<SymNode(Sym), a>>) : Sym \in {"f", "g", "h"}, a \in ArgNodes }
  \cup { Node("OpEval", <<SymNode("f")>>) }

\* the calls evaluated whole: with the declared number of arguments, with
\* one less and with one more
CallNodes ==
  { Node("OpEval", <<SymNode(Sym)>> \o args) :
      Sym \in {"f", "h", "k", "m"}, args \in {<<>>, <<IntNode("OpU8Const", 7)>>,
                                              <<IntNode("OpU8Const", 7), IntNode("OpU8Const", 9)>>} }

ParamNodes ==
  { ParamOf(Sym, i) : Sym \in {"f", "g", "h", "z"}, i \in {0, 1} }

\* Read over its operand, as AbbreviationCodegen builds it, and with a kid
\* before the operand
ReadNodes ==
  { Node("OpRead", <<e>>) : e \in {Node("OpUint8NoArgs", <<>>), Node("OpVaruint32NoArgs", <<>>),
                                   IntNode("OpU8Const", 7)} }
  \cup { Node("OpRead", <<Node("OpVoid", <<>>), Node("OpUint8NoArgs", <<>>)>>) }

InitCalls ==
  /\ UnusedWriter /\ IdleCodegen /\ IdleStreams
  /\ \E input \in {<<>>, <<1>>, <<129, 1>>} :
       Interp = [NewInterp(input, 0) EXCEPT !.defs = CallDefs]
  /\ Prev = Interp
  /\ LastCall = Call("none", Node("OpVoid", <<>>), 0)
  /\ NumCalls = 0

\* a step inside a call: NumCalls counts the calls of eval only
CallStep(s, c) ==
  /\ Interp' = s
  /\ Prev' = Interp
  /\ LastCall' = c
  /\ UNCHANGED <<NumCalls, wvars, gvars, svars>>

\* the Eval case up to EvalStack.push_back(Nd)
EnterEvalOf(Frames) ==
  /\ Interp.st = "ok" /\ Len(Interp.evalStack) < MaxEvalDepth
  /\ \E nd \in Frames :
       CallStep(IF checkEval(Interp, nd).st # "ok" THEN checkEval(Interp, nd)
                ELSE pushEvalStack(Interp, nd),
                Call("enterEval", nd, 0))

EnterEval == EnterEvalOf(FrameNodes)

\* the Eval case from EvalStack.pop_back()
LeaveEval ==
  /\ Interp.st = "ok" /\ Interp.evalStack # <<>>
  /\ CallStep(popEvalStack(R(Interp, 0)).s, Call("leaveEval", Node("OpVoid", <<>>), 0))

\* eval(Nd) and its value
EvalValue(m, nd) ==
  InstallInterp(eval(Interp, nd).s, Call(m, nd, eval(Interp, nd).v))

\* Interpreter::eval of a Param, at any depth of calls
EvalParamCall ==
  /\ CanCallInterp
  /\ \E nd \in ParamNodes : EvalValue("evalParam", nd)

\* Interpreter::eval of an Eval or a Read, at any depth of calls
EvalNodeCall ==
  /\ CanCallInterp
  /\ \E nd \in CallNodes \cup ReadNodes : EvalValue("eval", nd)

NextCalls == EnterEval \/ LeaveEval \/ EvalParamCall \/ EvalNodeCall

SpecCalls == InitCalls /\ [][NextCalls]_vars

(***************************************************************************)
(* Stream checks and writes: the caller evaluates Stream nodes and writes  *)
(* values through Opcode nodes, through leaves and, inside calls, through  *)
(* Param nodes.  The constructor makes Reader a ByteReadStream and Writer   *)
(* a ByteWriteStream; the classes themselves are not part of the code      *)
(* followed here, so isa<ByteReadStream> of the writer may come out either *)
(* way.                                                                    *)
(***************************************************************************)
StreamNodes ==
  { [Node("OpStream", <<>>) EXCEPT !.name = n] :
      n \in {"Input.Byte", "Input.Bit", "Input.Int", "Input.Ast",
             "Output.Byte", "Output.Bit", "Output.Int", "Output.Ast"} }

CaseOf(Key, Body) == Node("OpCase", <<IntNode("OpU8Const", Key), Body>>)

\* Opcode over a selector with no case, with one case of eight bits, and
\* with a second case whose body has no fixed width
WriteOpcodeNodes ==
  { Node("OpOpcode", <<sel>> \o cases) :
      sel \in { Node("OpUint8NoArgs", <<>>), Node("OpVaruint32NoArgs", <<>>) },
      cases \in { <<>>,
                  <<CaseOf(1, Node("OpUint8NoArgs", <<>>))>>,
                  <<CaseOf(1, Node("OpUint8NoArgs", <<>>)),
                    CaseOf(2, Node("OpVaruint32NoArgs", <<>>))>> } }

\* 263 = 1 * 256 + 7 selects the case of key 1, 2 the case of key 2, 5 none
OpcodeValues == {2, 5, 263}

WriteNodes ==
  { Node("OpUint8NoArgs", <<>>), Node("OpVaruint32NoArgs", <<>>), Node("OpVoid", <<>>),
    Node("OpMap", <<>>), IntNode("OpU8Const", 7),
    Node("OpPeek", <<Node("OpUint8NoArgs", <<>>)>>),
    ParamOf("h", 0), ParamOf("f", 0), ParamOf("h", 1) }

\* the calls a Param is written in
WriteFrames ==
  { Node("OpEval", <<SymNode("h"), Node("OpUint8NoArgs", <<>>)>>),
    Node("OpEval", <<SymNode("h"), IntNode("OpU8Const", 7)>>),
    Node("OpEval", <<SymNode("f"), Node("OpVaruint32NoArgs", <<>>)>>) }

EnterWriteFrame == EnterEvalOf(WriteFrames)

InitOps ==
  /\ UnusedWriter /\ IdleCodegen /\ IdleStreams
  /\ \E input \in {<<>>, <<1>>} : \E wb \in BOOLEAN :
       Interp = [NewInterp(input, 0) EXCEPT !.defs = CallDefs, !.writerByte = wb]
  /\ Prev = Interp
  /\ LastCall = Call("none", Node("OpVoid", <<>>), 0)
  /\ NumCalls = 0

\* Interpreter::eval of a Stream
EvalStreamCall ==
  /\ CanCallInterp
  /\ \E nd \in StreamNodes : EvalValue("eval", nd)

\* Interpreter::write(Value, Nd) through an Opcode
WriteOpcodeCall ==
  /\ CanCallInterp
  /\ \E nd \in WriteOpcodeNodes : \E v \in OpcodeValues :
       InstallInterp(write(Interp, v, nd).s, Call("write", nd, v))

\* Interpreter::write(Value, Nd) through a leaf or a Param
WriteNodeCall ==
  /\ CanCallInterp
  /\ \E nd \in WriteNodes : \E v \in {0, 7} :
       InstallInterp(write(Interp, v, nd).s, Call("write", nd, v))

NextOps == EvalStreamCall \/ WriteOpcodeCall \/ WriteNodeCall \/ EnterWriteFrame \/ LeaveEval

SpecOps == InitOps /\ [][NextOps]_vars

(***************************************************************************)
(* The code generator as a state machine: over the assignments of a trie   *)
(* in which at most one singleton lacks its index, getCodeSymtab is called *)
(* in either direction, with or without the cism model.                    *)
(***************************************************************************)
InitCodegen ==
  /\ ChooseTrie({{}} \cup { {s} : s \in Singletons }) /\ FreshWriter /\ IdleInterp
  /\ IdleCodegen /\ IdleStreams

\* AbbreviationCodegen::getCodeSymtab()
GetCodeSymtabCall ==
  /\ Symtab.op = "none"
  /\ \E ToRead \in BOOLEAN : \E UseCismModel \in BOOLEAN :
       Symtab' = getCodeSymtab(ToRead, UseCismModel)
  /\ UNCHANGED <<wvars, ivars, Flat, svars>>

NextCodegen == GetCodeSymtabCall

SpecCodegen == InitCodegen /\ [][NextCodegen]_vars

(***************************************************************************)
(* The rewriter and the decoder generated for its output: under each       *)
(* configuration of formats the caller writes integers and freezes, and    *)
(* the algorithm that reads the output back is then generated.             *)
(***************************************************************************)
FormatChoices ==
  { [AbbrevFormat |-> a, DefaultFormat |-> d, LoopSizeFormat |-> l] :
      a \in {"Varuint32", "Uint8"}, d \in {"Varint64", "Varuint32"},
      l \in {"Varuint64", "Uint8"} }

InitFormats ==
  /\ Flags \in FormatChoices
  /\ ChooseNodes({{}}) /\ FreshWriter /\ IdleInterp
  /\ IdleCodegen /\ IdleStreams

\* AbbreviationCodegen::getCodeSymtab() for reading, once the output is
\* complete
GenerateDecoder ==
  /\ status = "frozen" /\ Symtab.op = "none"
  /\ Symtab' = getCodeSymtab(TRUE, FALSE)
  /\ UNCHANGED <<wvars, ivars, Flat, svars>>

NextFormats == WriteInt \/ WriteFreezeEofCall \/ GenerateDecoder

SpecFormats == InitFormats /\ [][NextFormats]_vars

(***************************************************************************)
(* The flattener as a state machine: a FlattenAst is made for a symbol     *)
(* table with an installed root, flatten() is called on it and it is       *)
(* destroyed.                                                              *)
(***************************************************************************)
\* leaves: operators without kids, literals, a symbol, a format operator
\* (which flattenNode has no case for) and an unknown section
FlatLeaves ==
  { Node("OpVoid", <<>>), Node("OpError", <<>>), Node("OpLastRead", <<>>),
    IntLit("OpU8Const", 7, "Hexidecimal"), DefaultLit("OpU32Const"),
    Node("OpUint8NoArgs", <<>>), Node("OpUnknownSection", <<>>), SymNode("f") }

FlatKidLists == SeqsUpTo(FlatLeaves, 2)

\* the roots installed: operators over leaves, operators over operators, a
\* file with a header and a section, and what getCodeSymtab generates for
\* the five singletons
FlatTrees ==
  { Node(T, ks) : T \in VariableArityTypes, ks \in FlatKidLists }
  \cup { Node(T, <<a>>) : T \in {"OpNot", "OpPeek", "OpLoopUnbounded"}, a \in FlatLeaves }
  \cup { Node(T, <<a, b>>) : T \in {"OpLoop", "OpCase"}, a \in FlatLeaves, b \in FlatLeaves }
  \cup { Node(T, <<Node("OpLoop", <<a, b>>), Node("OpSequence", <<b>>)>>) :
           T \in {"OpDefine", "OpSwitch"}, a \in FlatLeaves, b \in FlatLeaves }
  \cup { Node("OpFile",
              <<Node("OpFileHeader", <<h, IntLit("OpU32Const", 11, "Hexidecimal")>>),
                Node("OpSection", <<Node("OpDefine", <<SymNode("f"), a, SymNode("g")>>)>>)>>) :
           h \in {IntLit("OpU32Const", 5, "Hexidecimal"), Node("OpVoid", <<>>)},
           a \in FlatLeaves }
  \cup { getCodeSymtab(r, c).Alg : r \in BOOLEAN, c \in BOOLEAN }

InitFlatten ==
  /\ UnusedWriter /\ IdleInterp /\ IdleStreams
  /\ \E Root \in FlatTrees :
       Symtab = [Alg |-> Root, ToRead |-> FALSE, UseCismModel |-> FALSE, op |-> "install"]
  /\ Flat = NewFlattenAst

\* FlattenAst::flatten()
FlattenCall ==
  /\ Flat.op = "new"
  /\ Flat' = flatten(Flat, Symtab.Alg)
  /\ UNCHANGED <<wvars, ivars, Symtab, svars>>

\* FlattenAst::~FlattenAst()
DestructCall ==
  /\ Flat.op # "destroyed"
  /\ Flat' = [freezeOutput(Flat) EXCEPT !.op = "destroyed"]
  /\ UNCHANGED <<wvars, ivars, Symtab, svars>>

NextFlatten == FlattenCall \/ DestructCall

SpecFlatten == InitFlatten /\ [][NextFlatten]_vars

(***************************************************************************)
(* The lifetime of a FlattenAst: flatten() is called any number of times,  *)
(* up to MaxFlattenCalls, on the installed root, and the object is then    *)
(* destroyed.                                                              *)
(***************************************************************************)
MaxFlattenCalls == 2

\* FlattenAst::flatten(), whether or not it was called before
FlattenAgainCall ==
  /\ Flat.op \in {"new", "flatten"} /\ Flat.calls < MaxFlattenCalls
  /\ Flat' = flatten(Flat, Symtab.Alg)
  /\ UNCHANGED <<wvars, ivars, Symtab, svars>>

NextLifetime == FlattenAgainCall \/ DestructCall

SpecLifetime == InitFlatten /\ [][NextLifetime]_vars

(***************************************************************************)
(* The StringWriter as a state machine: bound to a string, it is written   *)
(* to, asked for its end, read from and frozen, in any order.              *)
(***************************************************************************)
MaxWriterCalls == 3

WriterBufs == SeqsUpTo({65, 66}, 2)

InitStringWriter ==
  /\ UnusedWriter /\ IdleInterp /\ IdleCodegen
  /\ \E Str \in {<<>>, <<67>>} : StrW = NewStringWriter(Str)
  /\ IntRd = NewIntReader(<<>>) /\ IdleCompressor

CanCallWriter == StrW.n < MaxWriterCalls

StringWriterStep(w) == StrW' = w /\ UNCHANGED <<wvars, ivars, gvars, IntRd, Comp>>

\* StringWriter::write(Buf, Size), of the first Size bytes of a buffer
StrWriteCall ==
  /\ CanCallWriter
  /\ \E Buf \in WriterBufs : \E Size \in 0..Len(Buf) :
       StringWriterStep(StringWriter_write(StringWriterCall(StrW, "write", SubSeq(Buf, 1, Size)),
                                           Buf, Size))

StrFreezeCall ==
  /\ CanCallWriter
  /\ StringWriterStep(StringWriter_freeze(StringWriterCall(StrW, "freeze", <<>>)))

StrAtEofCall ==
  /\ CanCallWriter
  /\ StringWriterStep(StringWriter_atEof(StringWriterCall(StrW, "atEof", <<>>)))

StrReadCall ==
  /\ CanCallWriter
  /\ StringWriterStep(StringWriter_read(StringWriterCall(StrW, "read", <<>>)))

NextStringWriter == StrWriteCall \/ StrFreezeCall \/ StrAtEofCall \/ StrReadCall

SpecStringWriter == InitStringWriter /\ [][NextStringWriter]_vars

(***************************************************************************)
(* The IntReader as a state machine: over an integer stream, the caller    *)
(* reads, pushes peek positions and pops the ones it pushed.               *)
(***************************************************************************)
MaxPeekDepth == 2

IntStreams == { <<5, 6, 7>>, <<8, 9>> }

InitIntReader ==
  /\ UnusedWriter /\ IdleInterp /\ IdleCodegen
  /\ StrW = NewStringWriter(<<>>)
  /\ \E Input \in IntStreams : IntRd = NewIntReader(Input)
  /\ IdleCompressor

IntReaderStep(r) == IntRd' = r /\ UNCHANGED <<wvars, ivars, gvars, StrW, Comp>>

\* IntReader::read(), while the stream has integers left
IntReadCall ==
  /\ IntRd.Pos < Len(IntRd.Input)
  /\ IntReaderStep(IntReader_read(IntRd))

PushPeekPosCall ==
  /\ sizePeekPosStack(IntRd) < MaxPeekDepth
  /\ IntReaderStep(pushPeekPos(IntRd))

\* IntReader::popPeekPos(), matching a push
PopPeekPosCall ==
  /\ sizePeekPosStack(IntRd) > 0
  /\ IntReaderStep(popPeekPos(IntRd))

NextIntReader == IntReadCall \/ PushPeekPosCall \/ PopPeekPosCall

SpecIntReader == InitIntReader /\ [][NextIntReader]_vars

(***************************************************************************)
(* The header of an integer stream read back: an IntReader over a stream   *)
(* whose header has up to MaxHeader entries is asked for header values in  *)
(* some format, any number of times.                                       *)
(***************************************************************************)
MaxHeader == 3

HeaderPairs ==
  { [first |-> v, second |-> f] : v \in {5, 6}, f \in {"Uint32", "Varuint32"} }

InitHeader ==
  /\ UnusedWriter /\ IdleInterp /\ IdleCodegen
  /\ StrW = NewStringWriter(<<>>)
  /\ \E Header \in SeqsUpTo(HeaderPairs, MaxHeader) :
       IntRd = [NewIntReader(<<>>) EXCEPT !.Header = Header]
  /\ IdleCompressor

ReadHeaderValueCall ==
  \E Format \in {"Uint8", "Uint32", "Varuint32"} :
    IntReaderStep(readHeaderValue(IntRd, Format))

NextHeader == ReadHeaderValueCall

SpecHeader == InitHeader /\ [][NextHeader]_vars

(***************************************************************************)
(* The IntCompressor as its caller sees it: made with or without an input  *)
(* reader, which has or has not recorded errors, it has its cutoffs set    *)
(* and is asked whether errors were found.                                 *)
(***************************************************************************)
CutoffValues == {1, 2}

InitCompressor ==
  /\ UnusedWriter /\ IdleInterp /\ IdleCodegen
  /\ StrW = NewStringWriter(<<>>) /\ IntRd = NewIntReader(<<>>)
  /\ \E Input \in {"null", "reader"} : \E errors \in BOOLEAN :
       /\ Input = "null" => ~errors
       /\ Comp = NewIntCompressor(Input, errors)

\* a call on the compressor, while the run goes on
CompressorStep(c) ==
  /\ Comp.found # "fault"
  /\ Comp' = c
  /\ UNCHANGED <<wvars, ivars, gvars, StrW, IntRd>>

SetCountCutoffCall == \E v \in CutoffValues : CompressorStep(setCountCutoff(Comp, v))

SetWeightCutoffCall == \E v \in CutoffValues : CompressorStep(setWeightCutoff(Comp, v))

SetLengthLimitCall == \E v \in CutoffValues : CompressorStep(setLengthLimit(Comp, v))

\* IntCompressor::errorsFound()
ErrorsFoundCall ==
  \E outcome \in errorsFound(Comp) :
    CompressorStep([Comp EXCEPT !.op = "errorsFound", !.found = outcome])

NextCompressor ==
  SetCountCutoffCall \/ SetWeightCutoffCall \/ SetLengthLimitCall \/ ErrorsFoundCall

SpecCompressor == InitCompressor /\ [][NextCompressor]_vars

(***************************************************************************)
(* Reading the emitted stream back as groups.                              *)
(***************************************************************************)
Last(s) == s[Len(s)]

IsPrefix(p, s) == Len(p) <= Len(s) /\ SubSeq(s, 1, Len(p)) = p

PathOfIndex(idx) == CHOOSE p \in DOMAIN IntAbbrev : IntAbbrev[p] = idx

Group(kind, vals) == [kind |-> kind, vals |-> vals]

\* The groups of an emitted token sequence: an abbreviation index with its
\* trie path, a DefaultSingle group with its value, a DefaultMultiple group
\* with its n values, a block index, a forwarded action, the freeze.
RECURSIVE Groups(_)
Groups(out) ==
  IF out = <<>> THEN <<>>
  ELSE
    LET t == Head(out) IN
    IF t.k = "action" THEN <<Group(t.f, <<>>)>> \o Groups(Tail(out))
    ELSE IF t.k = "freeze" THEN <<Group("freeze", <<>>)>> \o Groups(Tail(out))
    ELSE IF t.f # Flags.AbbrevFormat THEN <<Group("bad", <<>>)>>
    ELSE IF t.v = SingAbbrev["BlockEnter"]
      THEN <<Group("Block_enter", <<>>)>> \o Groups(Tail(out))
    ELSE IF t.v = SingAbbrev["BlockExit"]
      THEN <<Group("Block_exit", <<>>)>> \o Groups(Tail(out))
    ELSE IF t.v = SingAbbrev["DefaultSingle"] THEN
      IF Len(out) >= 2 /\ out[2].k = "int" /\ out[2].f = Flags.DefaultFormat
      THEN <<Group("single", <<out[2].v>>)>> \o Groups(SubSeq(out, 3, Len(out)))
      ELSE <<Group("bad", <<>>)>>
    ELSE IF t.v = SingAbbrev["DefaultMultiple"] THEN
      IF /\ Len(out) >= 2 /\ out[2].k = "int" /\ out[2].f = Flags.LoopSizeFormat
         /\ Len(out) >= 2 + out[2].v
         /\ \A i \in 1..out[2].v :
              out[2 + i].k = "int" /\ out[2 + i].f = Flags.DefaultFormat
      THEN <<Group("multiple", [i \in 1..out[2].v |-> out[2 + i].v])>>
             \o Groups(SubSeq(out, 3 + out[2].v, Len(out)))
      ELSE <<Group("bad", <<>>)>>
    ELSE IF \E p \in DOMAIN IntAbbrev : IntAbbrev[p] = t.v
      THEN <<Group("abbrev", PathOfIndex(t.v))>> \o Groups(Tail(out))
    ELSE <<Group("bad", <<>>)>>

\* The operations a sequence of groups stands for.
RECURSIVE Expand(_)
Expand(gs) ==
  IF gs = <<>> THEN <<>>
  ELSE LET g == Head(gs)
       IN (IF g.kind \in {"abbrev", "single", "multiple"}
           THEN [i \in 1..Len(g.vals) |-> Op("int", g.vals[i])]
           ELSE <<Op(g.kind, 0)>>) \o Expand(Tail(gs))

RECURSIVE SelectOps(_, _)
SelectOps(ops, kinds) ==
  IF ops = <<>> THEN <<>>
  ELSE (IF Head(ops).k \in kinds THEN <<Head(ops)>> ELSE <<>>)
         \o SelectOps(Tail(ops), kinds)

IntsOf(ops) == SelectOps(ops, {"int"})

BlockKinds == {"Block_enter", "Block_exit"}

\* number of integers among the first n operations
IntsBefore(ops, n) == Len(IntsOf(SubSeq(ops, 1, n)))

(***************************************************************************)
(* C2  Rewriter coverage: once writeFreezeEof has returned, expanding the  *)
(* emitted groups in output order (an abbreviation index to its trie path, *)
(* a DefaultSingle group to its value, a DefaultMultiple group to its n    *)
(* values) yields exactly the integers written, in order.                  *)
(***************************************************************************)
C2_Coverage ==
  status = "frozen" => IntsOf(Expand(Groups(Out))) = IntsOf(Hist)

\* a closed run whose output holds an abbreviation group and a default group
C2_Witness ==
  /\ status = "frozen"
  /\ Len(IntsOf(Hist)) >= 3
  /\ \E i, j \in DOMAIN Groups(Out) :
       Groups(Out)[i].kind = "abbrev" /\ Groups(Out)[j].kind = "single"
  /\ IntsOf(Expand(Groups(Out))) = IntsOf(Hist)

(***************************************************************************)
(* C3  Longest match: whenever an abbreviation index is emitted for the    *)
(* values starting at position i of the input S, its path matches S[i..]   *)
(* and no abbreviated path longer than it matches S[i..], where S[i..]     *)
(* runs to the next block action (or to the last value written).           *)
(***************************************************************************)
\* the number of integers the groups before group j stand for
OffsetOfGroup(gs, j) == Len(IntsOf(Expand(SubSeq(gs, 1, j - 1))))

\* the integers written after the first i, up to the next block action
RestOfSegment(i) ==
  LET S == IntsOf(Hist)
      B == { IntsBefore(Hist, n) : n \in { m \in DOMAIN Hist : Hist[m].k \in BlockKinds } }
      E == { b \in B : b > i }
      e == IF E = {} THEN Len(S) ELSE CHOOSE b \in E : \A c \in E : b <= c
  IN [n \in 1..(e - i) |-> S[i + n].v]

C3_LongestMatch ==
  LET gs == Groups(Out) IN
  \A j \in DOMAIN gs :
    gs[j].kind = "abbrev" =>
      LET rest == RestOfSegment(OffsetOfGroup(gs, j)) IN
      /\ IsPrefix(gs[j].vals, rest)
      /\ \A p \in DOMAIN IntAbbrev :
           Len(p) > Len(gs[j].vals) => ~IsPrefix(p, rest)

\* a path and its one-value prefix are both abbreviated: the longer one was
\* emitted for the full buffer, the shorter one for the value left over
C3_Witness ==
  LET gs == Groups(Out) IN
  /\ status = "frozen"
  /\ Len(gs) = 3
  /\ gs[1].kind = "abbrev" /\ Len(gs[1].vals) = LengthLimit /\ LengthLimit > 1
  /\ <<gs[1].vals[1]>> \in DOMAIN IntAbbrev
  /\ gs[2].kind = "abbrev" /\ gs[2].vals = <<gs[1].vals[1]>>
  /\ Len(IntsOf(Hist)) = LengthLimit + 1

(***************************************************************************)
(* C4  Buffer bound: after every public operation the ring buffer holds    *)
(* strictly fewer than LengthLimit entries, and the assertion              *)
(* !Buffer.full() of bufferValue has never failed.                         *)
(***************************************************************************)
C4_BufferBound == Len(Buffer) < LengthLimit /\ status # "abort"

\* the buffer was filled, flushed one step, and is one short of full
C4_Witness ==
  /\ LengthLimit = MaxLengthLimit
  /\ Len(IntsOf(Hist)) > LengthLimit
  /\ Len(Buffer) = LengthLimit - 1
  /\ Out # <<>>

(***************************************************************************)
(* C5  writeFreezeEof terminates (no drain loop runs without removing a    *)
(* value); when it has returned the buffer and the default queue are empty *)
(* and the freeze is the last thing the underlying writer received.        *)
(***************************************************************************)
C5_FreezeDrains ==
  /\ status # "stuck"
  /\ (Hist # <<>> /\ Last(Hist).k = "freeze") =>
       /\ status = "frozen"
       /\ Buffer = <<>>
       /\ DefaultValues = <<>>
       /\ Out # <<>> /\ Last(Out) = FreezeTok
       /\ \A i \in 1..(Len(Out) - 1) : Out[i] # FreezeTok
       /\ Len(IntsOf(Expand(Groups(Out)))) = Len(IntsOf(Hist))

\* a freeze that had to drain a buffered value and flush queued defaults
C5_Witness ==
  /\ status = "frozen"
  /\ LengthLimit = 2
  /\ IntAbbrev = <<>>
  /\ Len(IntsOf(Hist)) = 3
  /\ Len(Out) = 6 /\ Last(Out) = FreezeTok

(***************************************************************************)
(* C6  Every abbreviation index written is the index of a member of        *)
(* Assignments; the index of a singleton without AbbrevIndex is never      *)
(* emitted.                                                                *)
(***************************************************************************)
AssignedIndices ==
  { IntAbbrev[p] : p \in DOMAIN IntAbbrev }
    \cup { SingAbbrev[s] : s \in { t \in Singletons : SingAbbrev[t] # NoAbbrevIndex } }

C6_IndicesAssigned ==
  \A i \in DOMAIN Out :
    (Out[i].k = "int" /\ Out[i].f = Flags.AbbrevFormat) =>
      Out[i].v \in AssignedIndices

(***************************************************************************)
(* C7  Between calls the number of queued default values stays within a    *)
(* fixed maximum (here: the capacity of the ring buffer), however many     *)
(* values have been written.                                               *)
(***************************************************************************)
C7_DefaultQueueBounded == Len(DefaultValues) <= LengthLimit

(***************************************************************************)
(* C8  Default-run coalescing: flushDefaultValues emits nothing for an     *)
(* empty queue; the DefaultSingle index (AbbrevFormat) and the value       *)
(* (DefaultFormat) for one queued value; the DefaultMultiple index         *)
(* (AbbrevFormat), n (LoopSizeFormat) and the n values in queue order      *)
(* (DefaultFormat) for n >= 2; and it leaves the queue empty.  A closed    *)
(* run of n values without any path abbreviation is one such group.        *)
(***************************************************************************)
DefaultGroup(dv) ==
  IF dv = <<>> THEN <<>>
  ELSE IF Len(dv) = 1
  THEN <<IntTok(Flags.AbbrevFormat, SingAbbrev["DefaultSingle"]),
         IntTok(Flags.DefaultFormat, dv[1])>>
  ELSE <<IntTok(Flags.AbbrevFormat, SingAbbrev["DefaultMultiple"]),
         IntTok(Flags.LoopSizeFormat, Len(dv))>>
         \o [i \in 1..Len(dv) |-> IntTok(Flags.DefaultFormat, dv[i])]

C8_Coalescing ==
  /\ flushDefaultValues(Cur).out = Out \o DefaultGroup(DefaultValues)
  /\ flushDefaultValues(Cur).dv = <<>>
  /\ (status = "frozen" /\ IntAbbrev = <<>> /\ IntsOf(Hist) = SubSeq(Hist, 1, Len(Hist) - 1)) =>
       Out = DefaultGroup([i \in 1..(Len(Hist) - 1) |-> Hist[i].v]) \o <<FreezeTok>>

\* three values, no path abbreviation: DefaultMultiple, 3, v1, v2, v3
C8_Witness ==
  /\ status = "frozen"
  /\ IntAbbrev = <<>>
  /\ Hist = <<Op("int", 1), Op("int", 2), Op("int", 1), Op("freeze", 0)>>
  /\ Out = <<IntTok(Flags.AbbrevFormat, SingAbbrev["DefaultMultiple"]),
             IntTok(Flags.LoopSizeFormat, 3),
             IntTok(Flags.DefaultFormat, 1), IntTok(Flags.DefaultFormat, 2),
             IntTok(Flags.DefaultFormat, 1), FreezeTok>>

(***************************************************************************)
(* C9  writeAction(Block_enter / Block_exit) drains the ring buffer and    *)
(* flushes the queued defaults, then emits the singleton's index in        *)
(* AbbrevFormat: the values written before the action are emitted before   *)
(* the block index and no group spans the action.                          *)
(***************************************************************************)
BlockSingleton(k) == IF k = "Block_enter" THEN "BlockEnter" ELSE "BlockExit"

C9_BlockActionDrains ==
  (Hist # <<>> /\ Last(Hist).k \in BlockKinds) =>
     /\ status = "open"
     /\ Buffer = <<>>
     /\ DefaultValues = <<>>
     /\ Out # <<>>
     /\ Last(Out) = IntTok(Flags.AbbrevFormat, SingAbbrev[BlockSingleton(Last(Hist).k)])
     /\ SelectOps(Expand(Groups(Out)), {"int"} \cup BlockKinds)
          = SelectOps(Hist, {"int"} \cup BlockKinds)

\* a block action that found a buffered value and a queued default
C9_Witness ==
  /\ LengthLimit = 2
  /\ Len(Hist) = 4 /\ Last(Hist).k = "Block_exit"
  /\ Hist[1].k = "int" /\ Hist[2].k = "int" /\ Hist[3].k = "int"
  /\ IntAbbrev = <<>>
  /\ Len(Out) = 6
  /\ Out[1] = IntTok(Flags.AbbrevFormat, SingAbbrev["DefaultMultiple"])
  /\ Last(Out) = IntTok(Flags.AbbrevFormat, SingAbbrev["BlockExit"])

(***************************************************************************)
(* C1: round trip.  Once the writer is frozen, decoding the bytes of what  *)
(* it wrote with the File definition generated for reading, under eval,    *)
(* ends normally and reproduces the integers and block events the caller   *)
(* wrote, in order.                                                        *)
(***************************************************************************)
RECURSIVE BytesOf(_)
BytesOf(out) ==
  IF out = <<>> THEN <<>>
  ELSE (IF out[1].k = "int" THEN EncodeInt(out[1].f, out[1].v) ELSE <<>>)
       \o BytesOf(Tail(out))

Decoded == eval(NewInterp(BytesOf(Out), 0), generateStartFunction(TRUE)).s

DecodedStream == [i \in 1..Len(Decoded.wlog) |-> Op("int", Decoded.wlog[i].v)]

C1_RoundTrip ==
  status = "frozen" =>
    /\ Decoded.st = "ok"
    /\ DecodedStream = SelectOps(Hist, {"int"} \cup BlockKinds)

(***************************************************************************)
(* C10: Peek purity.  A call on a Peek node writes nothing to the output,  *)
(* and when it returns the read cursor is where it was on entry.           *)
(***************************************************************************)
C10_PeekPurity ==
  LastCall.nd.type = "OpPeek" =>
    /\ Interp.out = Prev.out
    /\ Interp.wlog = Prev.wlog
    /\ (Interp.st = "ok" => Interp.pos = Prev.pos /\ Interp.eob = Prev.eob)

\* eval of a Peek returned, and its operand, read alone from the same
\* state, moves the cursor
C10_Witness ==
  /\ LastCall.m = "eval"
  /\ LastCall.nd.type = "OpPeek"
  /\ Interp.st = "ok"
  /\ Prev.pos > 0
  /\ read(Prev, getKid(LastCall.nd, 0)).s.pos > Prev.pos
  /\ Interp.pos = Prev.pos


(***************************************************************************)
(* C11: EOB pairing.  When a run of decompress or eval has ended, by       *)
(* returning, by a fatal error or by fail(), the EOB stack of the read     *)
(* cursor is as deep as when the run began (every run here begins with an  *)
(* empty EOB stack): each pushEobAddress was matched by a popEobAddress.   *)
(***************************************************************************)
C11_EobPaired ==
  Interp.st \in {"ok", "fatal", "failed"} => Len(Interp.eob) = Len(NewInterp(<<>>, 0).eob)


(***************************************************************************)
(* C12: opcode assembly.  When readOpcode on an Opcode node with a byte    *)
(* selector returns, LastReadValue is the prefix shifted by the selector's *)
(* bitsize, or'ed with the selector byte; and when a Case matches that     *)
(* value and its body reads a continuation byte, it is that value shifted  *)
(* by the continuation's bitsize, or'ed with the continuation byte.        *)
(***************************************************************************)
C12_Assembled ==
  LET Selector == Prev.input[Prev.pos + 1]
      Prefixed == LastCall.v * Pow2(8) + Selector
  IN IF CaseKids(LastCall.nd, Prefixed) = {} THEN Prefixed
     ELSE Prefixed * Pow2(8) + Prev.input[Prev.pos + 2]

C12_OpcodeAssembly ==
  LastCall.m = "readOpcode" /\ Interp.st = "ok" => Interp.lastRead = C12_Assembled


(***************************************************************************)
(* C13: hasEnoughHeadroom is true exactly when the input is EOF-frozen or  *)
(* at least kResumeHeadroom bytes are buffered ahead of the read position. *)
(***************************************************************************)
C13_HeadroomIff ==
  hasEnoughHeadroom(Interp) <=>
    (Interp.frozen \/ Len(Interp.input) - Interp.pos >= kResumeHeadroom)

(***************************************************************************)
(* C14: a call that waits in readBackFilled can run its frames as soon as  *)
(* the producer has frozen the input or has buffered kResumeHeadroom bytes *)
(* ahead of the read cursor.                                               *)
(***************************************************************************)
C14_ResumeEnabled ==
  ( /\ Interp.st = "ok" /\ Pending(Interp)
    /\ (Interp.frozen \/ Len(Interp.input) - Interp.pos >= kResumeHeadroom) )
  => ENABLED RunStep

(***************************************************************************)
(* C19: a node dispatched to the frame machine with method Eval has, once  *)
(* the call has ended on a complete input, the effects eval has on that    *)
(* node from the same state: the same outcome, bytes written, read         *)
(* position and LastReadValue.                                             *)
(***************************************************************************)
Effects(s) == <<s.st, s.out, s.pos, s.lastRead>>

C19_SameEffects ==
  ( /\ LastCall.m = "Eval" /\ Interp.frozen
    /\ ~(Interp.st = "ok" /\ Pending(Interp)) )
  => Effects(Interp) =
       Effects(eval([Prev EXCEPT !.input = Interp.input, !.frozen = TRUE],
                    LastCall.nd).s)

(***************************************************************************)
(* C20: after fail() no frame is saved on the frame stack, however many    *)
(* were, the current frame is the failed frame, and a turn of runMethods   *)
(* on it runs nothing.                                                     *)
(***************************************************************************)
C20_FailUnwinds ==
  LastCall.m = "fail" =>
    /\ Interp.frames = <<>>
    /\ Interp.frame.State = "Failed"
    /\ stepMethods([Interp EXCEPT !.st = "ok"]) = [Interp EXCEPT !.st = "ok"]
    /\ ~ENABLED RunStep

C20_Witness ==
  /\ LastCall.m = "fail" /\ Len(Prev.frames) >= 2
  /\ Interp.frames = <<>> /\ Interp.frame.State = "Failed"


(***************************************************************************)
(* C15: decompress echoes the magic number only if it is WasmBinaryMagic   *)
(* and the version only if it is WasmBinaryVersion.  On another magic it   *)
(* fails with nothing written, on another version it fails with only the   *)
(* magic written, and in both cases no section was processed and the       *)
(* output was not frozen.                                                  *)
(***************************************************************************)
MagicBytes == EncodeFixed(WasmBinaryMagic, 4)

VersionBytes == EncodeFixed(WasmBinaryVersion, 4)

HasMagic(input) == Len(input) >= 4 /\ SubSeq(input, 1, 4) = MagicBytes

HasVersion(input) == Len(input) >= 8 /\ SubSeq(input, 5, 8) = VersionBytes

C15_HeaderChecked ==
  LastCall.m = "decompress" =>
    /\ Interp.out # <<>> => HasMagic(Prev.input) /\ IsPrefix(MagicBytes, Interp.out)
    /\ Len(Interp.out) > 4 =>
         HasVersion(Prev.input) /\ IsPrefix(MagicBytes \o VersionBytes, Interp.out)
    /\ (Len(Prev.input) >= 4 /\ ~HasMagic(Prev.input)) =>
         Interp.st = "fatal" /\ Interp.out = <<>> /\ Interp.ev = <<>>
    /\ (HasMagic(Prev.input) /\ Len(Prev.input) >= 8 /\ ~HasVersion(Prev.input)) =>
         Interp.st = "fatal" /\ Interp.out = MagicBytes /\ Interp.ev = <<>>

C15_Witness ==
  /\ LastCall.m = "decompress"
  /\ HasMagic(Prev.input) /\ Len(Prev.input) > 8 /\ ~HasVersion(Prev.input)
  /\ Interp.st = "fatal" /\ Interp.out = MagicBytes

(***************************************************************************)
(* C16: when no section name has a definition, the output of a completed   *)
(* decompress is the header followed, for each section, by its name length *)
(* and name bytes, the size of its block and the bytes of the block, as    *)
(* they are in the input: each copy stops at the end of its block.         *)
(***************************************************************************)
SizeField(n, min) == IF min THEN EncodeVaruint(n) ELSE FixedBlockSize(n)

\* the sections in bs with their size fields written anew
RECURSIVE CopiedSections(_, _)
CopiedSections(bs, min) ==
  IF bs = <<>> THEN <<>>
  ELSE LET nl == LebLength(bs)
           n == DecodeVaruint(SubSeq(bs, 1, nl))
           block == SubSeq(bs, nl + n + 1, Len(bs))
           sl == LebLength(block)
           size == DecodeVaruint(SubSeq(block, 1, sl))
           body == SubSeq(block, sl + 1, sl + size)
           rest == SubSeq(block, sl + size + 1, Len(block))
       IN SubSeq(bs, 1, nl + n) \o SizeField(size, min) \o body
            \o CopiedSections(rest, min)

C16_UnknownCopied ==
  (LastCall.m = "decompress" /\ Interp.st = "ok" /\ DOMAIN Prev.defs = {}) =>
    /\ Interp.out = SubSeq(Prev.input, 1, 8)
                      \o CopiedSections(SubSeq(Prev.input, 9, Len(Prev.input)),
                                        Prev.minimize)
    /\ Interp.pos = Len(Prev.input)

C16_Witness ==
  /\ LastCall.m = "decompress" /\ Interp.st = "ok" /\ DOMAIN Prev.defs = {}
  /\ Prev.minimize
  /\ Prev.input = MagicBytes \o VersionBytes \o <<1, 97, 3, 170, 187, 204, 0, 1, 7>>
  /\ Interp.out = Prev.input

(***************************************************************************)
(* C17: when decompress completes, every section processed was followed by *)
(* the alignment of reader and writer, the output was frozen exactly once, *)
(* as the last step, with the whole input read and nothing written         *)
(* afterwards; and a decompress that does not complete has not frozen the  *)
(* output.                                                                 *)
(***************************************************************************)
Freezes(ev) == { i \in 1..Len(ev) : ev[i] = "freezeEof" }

C17_FrozenLast ==
  LastCall.m = "decompress" =>
    /\ Interp.st = "ok" =>
         /\ Freezes(Interp.ev) = {Len(Interp.ev)}
         /\ Interp.frozenLen = Len(Interp.out)
         /\ Interp.pos = Len(Interp.input)
         /\ \A i \in 1..Len(Interp.ev) :
              Interp.ev[i] = "decompressSection" =>
                /\ i + 2 < Len(Interp.ev)
                /\ Interp.ev[i + 1] = "alignReader"
                /\ Interp.ev[i + 2] = "alignWriter"
    /\ Interp.st # "ok" => Freezes(Interp.ev) = {}

C17_Witness ==
  /\ LastCall.m = "decompress" /\ Interp.st = "ok"
  /\ Len(Interp.ev) = 7 /\ Interp.ev[7] = "freezeEof"
  /\ Len(Interp.out) > 8 /\ Interp.frozenLen = Len(Interp.out)

(***************************************************************************)
(* C18: when eval of a Block returns, the size field at the start of the   *)
(* block in the output holds the number of bytes the body wrote, the body  *)
(* bytes follow it directly (after the shortened field when                *)
(* MinimizeBlockSize is set, after the five reserved bytes otherwise), in  *)
(* the order they were written, and the output ends with the last of them. *)
(* Block{Loop(3, Uint8)} on the block [0x03, 0xAA, 0xBB, 0xCC] writes the  *)
(* three bytes with declared size 3.                                       *)
(***************************************************************************)
C18_SizeField ==
  (LastCall.m = "eval" /\ LastCall.nd.type = "OpBlock" /\ Interp.st = "ok") =>
    LET k == LebLength(Interp.out)
        n == DecodeVaruint(SubSeq(Interp.out, 1, k))
    IN /\ k > 0
       /\ n = Len(Interp.out) - k
       /\ k = Len(SizeField(n, Prev.minimize))
       /\ getKid(LastCall.nd, 0).type # "OpBlock" =>
            SubSeq(Interp.out, k + 1, Len(Interp.out)) = BytesOf(Interp.wlog)

BlockOfLoop3 ==
  Node("OpBlock", <<Node("OpLoop", <<IntNode("OpU64Const", 3),
                                     Node("OpUint8NoArgs", <<>>)>>)>>)

\* the example, on the given input
C18_Example(input) ==
  ( /\ LastCall.m = "eval" /\ LastCall.nd = BlockOfLoop3
    /\ Prev.input = input /\ Prev.frozen )
  => /\ Interp.st = "ok"
     /\ Interp.out = SizeField(3, Prev.minimize) \o <<170, 187, 204>>

BodyOf(Defn) == getKid(Defn, getNumKids(Defn) - 1)

\* the kids of a node from kid number i on
KidsFrom(Nd, i) == [j \in 1..(getNumKids(Nd) - i) |-> getKid(Nd, i + j - 1)]

IsHeader(Nd, Type, Magic, Version) ==
  /\ Nd.type = Type /\ getNumKids(Nd) = 2
  /\ getKid(Nd, 0).type = "OpU32Const" /\ getKid(Nd, 0).name = Magic
  /\ getKid(Nd, 1).type = "OpU32Const" /\ getKid(Nd, 1).name = Version

\* Nd reads an abbreviation index in AbbrevFormat
IsAbbreviationRead(Nd, ToRead) ==
  LET Format == IF ToRead THEN getKid(Nd, 0) ELSE Nd
  IN /\ ToRead => Nd.type = "OpRead" /\ getNumKids(Nd) = 1
     /\ Format.type = TypeOfFormat[Flags.AbbrevFormat] /\ getNumKids(Format) = 0

\* Nd is Switch(read-abbreviation, Error, one Case per assignment)
IsAbbrevSwitch(Nd, ToRead) ==
  LET Cases == KidsFrom(Nd, 2)
  IN /\ Nd.type = "OpSwitch" /\ getNumKids(Nd) >= 2
     /\ IsAbbreviationRead(getKid(Nd, 0), ToRead)
     /\ getKid(Nd, 1) = Node("OpError", <<>>)
     /\ Len(Cases) = Cardinality(Assignments)
     /\ \A i \in 1..Len(Cases) :
          /\ Cases[i].type = "OpCase" /\ getNumKids(Cases[i]) = 2
          /\ getKid(Cases[i], 0).type = "OpU64Const"
     /\ \A a \in Assignments :
          Cardinality({ i \in 1..Len(Cases) : getKid(Cases[i], 0).val = a.idx }) = 1
     /\ \A i, j \in 1..Len(Cases) :
          i # j => getKid(Cases[i], 0).val # getKid(Cases[j], 0).val

CallbackOf(Sym) ==
  Node("OpCallback", <<Node("OpLiteralActionUse", <<SymNode(Sym)>>)>>)

\* the action the statement gives for an assignment
StatedAction(a, ToRead) ==
  CASE a.kind = "Int" ->
         IF ToRead
         THEN Node("OpWrite", <<Node("OpVaruint64NoArgs", <<>>)>>
                                \o [i \in 1..Len(a.path) |-> IntNode("OpU64Const", a.path[i])])
         ELSE Node("OpVoid", <<>>)
    [] a.sing = "BlockEnter" ->
         CallbackOf(IF ToRead THEN "Block_enter" ELSE "Block_enter_writeonly")
    [] a.sing = "BlockExit" ->
         CallbackOf(IF ToRead THEN "Block_exit" ELSE "Block_exit_writeonly")
    [] a.sing = "DefaultSingle" -> Node("OpVarint64NoArgs", <<>>)
    [] a.sing = "DefaultMultiple" ->
         Node("OpLoop", <<Node("OpRead", <<Node("OpVaruint64NoArgs", <<>>)>>),
                          Node("OpVarint64NoArgs", <<>>)>>)
    [] a.sing = "Align" -> CallbackOf("Align")

\* the Switch of the generated File definition
GeneratedSwitch == getKid(BodyOf(getKid(Symtab.Alg, 2)), 0)

\* the actions of the cases keyed idx
ActionsOf(Switch, idx) ==
  { getKid(c, 1) : c \in { getKid(Switch, i) : i \in { i \in 2..(getNumKids(Switch) - 1) :
                                                         getKid(getKid(Switch, i), 0).val = idx } } }

C22_ActionAsStated ==
  (Symtab.op = "getCodeSymtab" /\ ~Symtab.UseCismModel) =>
    \A a \in Assignments :
      ActionsOf(GeneratedSwitch, a.idx) = { StatedAction(a, Symtab.ToRead) }

\* the same, with the loop size of DefaultMultiple wrapped in Read only
\* when ToRead
DirectedAction(a, ToRead) ==
  IF a.kind = "Singleton" /\ a.sing = "DefaultMultiple" /\ ~ToRead
  THEN Node("OpLoop", <<Node("OpVaruint64NoArgs", <<>>), Node("OpVarint64NoArgs", <<>>)>>)
  ELSE StatedAction(a, ToRead)

C22_Actions ==
  (Symtab.op = "getCodeSymtab" /\ ~Symtab.UseCismModel) =>
    \A a \in Assignments :
      ActionsOf(GeneratedSwitch, a.idx) = { DirectedAction(a, Symtab.ToRead) }

\* an algorithm generated in the write direction for the path 1, 2 and all
\* five singletons
C22_Witness ==
  /\ Symtab.op = "getCodeSymtab" /\ ~Symtab.UseCismModel /\ ~Symtab.ToRead
  /\ <<1, 2>> \in DOMAIN IntAbbrev
  /\ \A s \in Singletons : SingAbbrev[s] # NoAbbrevIndex

(***************************************************************************)
(* C23.  Every Define node built by AbbreviationCodegen (the File, opcode  *)
(* and categorize definitions) has exactly three kids (symbol, parameter   *)
(* count, body), so that eval(Define), which evaluates kid 2, evaluates    *)
(* the body of the definition.                                             *)
(***************************************************************************)
\* the Define nodes the algorithm holds
DefinesOf(Alg) == { getKid(Alg, i) : i \in { i \in 0..(getNumKids(Alg) - 1) :
                                               getKid(Alg, i).type = "OpDefine" } }

C23_DefineArity ==
  Symtab.op = "getCodeSymtab" =>
    \A Defn \in DefinesOf(Symtab.Alg) :
      /\ getNumKids(Defn) = 3
      /\ getKid(Defn, 2).type \notin {"OpNoLocals", "OpNoParams"}

(***************************************************************************)
(* C24.  flattenNode serialises operators in postorder, the opcode after   *)
(* all kids and the kids in source order: a fixed-arity operator as        *)
(* kids..., opcode and a variable-arity operator (Define, Eval, Map,       *)
(* Opcode, Switch, Sequence, Write, Filter) as kids..., opcode, numKids,   *)
(* where numKids is the actual number of kids of the node.                 *)
(***************************************************************************)
StatedVariableArity ==
  {"OpDefine", "OpEval", "OpMap", "OpOpcode", "OpSwitch", "OpSequence", "OpWrite",
   "OpFilter"}

\* the types the statement is about: literals, the symbol, and the
\* operators flattenNode writes in postorder
RECURSIVE OnlyTypes(_, _)
OnlyTypes(Nd, Types) ==
  /\ Nd.type \in Types
  /\ \A i \in 0..(getNumKids(Nd) - 1) : OnlyTypes(getKid(Nd, i), Types)

\* the serialisation as stated, the kids first and in source order
RECURSIVE Postorder(_)
RECURSIVE PostorderKids(_, _)
Postorder(Nd) ==
  CASE Nd.type \in IntegerTableTypes ->
         IF isDefaultValue(Nd) THEN <<OpcodeTok(Nd.type), ValueTok(0)>>
         ELSE <<OpcodeTok(Nd.type), FormatTagTok(getFormat(Nd)), ValueTok(Nd.val)>>
    [] Nd.type = "OpSymbol" -> <<OpcodeTok(Nd.type), ValueTok(0)>>
    [] Nd.type \in StatedVariableArity ->
         PostorderKids(Nd, 0) \o <<OpcodeTok(Nd.type), ValueTok(Len(Nd.kids))>>
    [] OTHER -> PostorderKids(Nd, 0) \o <<OpcodeTok(Nd.type)>>

PostorderKids(Nd, i) ==
  IF i >= Len(Nd.kids) THEN <<>>
  ELSE Postorder(Nd.kids[i + 1]) \o PostorderKids(Nd, i + 1)

C24_Postorder ==
  (Flat.op = "flatten"
   /\ OnlyTypes(Symtab.Alg, IntegerTableTypes \cup {"OpSymbol"} \cup FixedArityTypes
                              \cup VariableArityTypes)) =>
    /\ Flat.ret
    /\ Flat.out = Postorder(Symtab.Alg) \o <<FreezeEofTok>>

\* a flattened Define over a two-kid Loop and a Sequence
C24_Witness ==
  /\ Flat.op = "flatten" /\ Flat.ret
  /\ Symtab.Alg.type = "OpDefine" /\ getNumKids(Symtab.Alg) = 2
  /\ getKid(Symtab.Alg, 0).type = "OpLoop"
  /\ getKid(getKid(Symtab.Alg, 0), 0) # getKid(getKid(Symtab.Alg, 0), 1)
  /\ OnlyTypes(Symtab.Alg, IntegerTableTypes \cup {"OpSymbol"} \cup FixedArityTypes
                             \cup VariableArityTypes)

(***************************************************************************)
(* C25.  flatten() returns false, with an error reported, whenever the     *)
(* installed tree contains a node whose type flattenNode does not support  *)
(* or does not know; it never returns true after silently emitting nothing *)
(* for such a node.                                                        *)
(***************************************************************************)
\* the types flattenNode writes something for
SupportedTypes ==
  IntegerTableTypes \cup FixedArityTypes \cup VariableArityTypes
  \cup {"OpFile", "OpFileHeader", "OpStream", "OpSection", "OpSymbol"}

C25_UnsupportedReported ==
  (Flat.op = "flatten" /\ ~OnlyTypes(Symtab.Alg, SupportedTypes)) =>
    ~Flat.ret /\ Flat.HasErrors

(***************************************************************************)
(* C26.  StringWriter freeze is monotone: once freeze() has been called    *)
(* the writer stays frozen (atEof() is true) under every later operation,  *)
(* and every later write returns false and leaves the target string        *)
(* unchanged; before freeze, write appends exactly the given bytes in      *)
(* order and returns true.                                                 *)
(***************************************************************************)
C26_FreezeMonotone ==
  /\ StrW.before.IsFrozen =>
       /\ StrW.IsFrozen
       /\ StrW.Str = StrW.before.Str
       /\ StrW.op = "write" => StrW.ret = 0
       /\ StrW.op = "atEof" => StrW.ret = 1
  /\ (~StrW.before.IsFrozen /\ StrW.op = "write") =>
       /\ StrW.Str = StrW.before.Str \o StrW.arg
       /\ StrW.ret = 1
  /\ StrW.op = "freeze" => StrW.IsFrozen

\* a write of two bytes refused after a freeze that followed a write
C26_Witness ==
  /\ StrW.op = "write" /\ StrW.before.IsFrozen /\ Len(StrW.arg) = 2
  /\ StrW.Str # <<>> /\ StrW.ret = 0

(***************************************************************************)
(* C27.  For IntReader, after pushPeekPos(), any number of reads and the   *)
(* matching popPeekPos(), the read position equals the position at the     *)
(* time of pushPeekPos(); nested pairs restore positions in LIFO order and *)
(* leave the peek stack at its original depth.                             *)
(***************************************************************************)
C27_PeekRestores ==
  /\ IntRd.op = "popPeekPos" => IntRd.Pos = IntRd.expect
  /\ sizePeekPosStack(IntRd) = Len(IntRd.pushedAt)

(***************************************************************************)
(* C28.  Evaluating Param(i) evaluates the (i+1)-th kid of the innermost   *)
(* Eval on the call stack whose callee symbol is the defining symbol of    *)
(* the Param; frames of other callees are skipped, and if the call stack   *)
(* is empty or no frame matches, evaluation is fatal rather than falling   *)
(* back to an outer match.                                                 *)
(***************************************************************************)
\* the frames of the stack that call Sym
FramesOf(stack, Sym) == { i \in 1..Len(stack) : getKid(stack[i], 0).name = Sym }

Innermost(stack, Sym) ==
  stack[CHOOSE i \in FramesOf(stack, Sym) : \A j \in FramesOf(stack, Sym) : j <= i]

C28_InnermostFrame ==
  LastCall.m = "evalParam" =>
    LET stack == Prev.evalStack
        P == LastCall.nd
    IN IF FramesOf(stack, P.name) = {} THEN Interp.st = "fatal"
       ELSE IF ~hasKid(Innermost(stack, P.name), P.val + 1) THEN Interp.st = "fatal"
       ELSE /\ Interp = eval(Prev, getKid(Innermost(stack, P.name), P.val + 1)).s
            /\ LastCall.v = eval(Prev, getKid(Innermost(stack, P.name), P.val + 1)).v

\* Param(0) of f evaluated to 7 inside a call of g inside a call of f
C28_Witness ==
  /\ LastCall.m = "evalParam" /\ LastCall.nd = ParamOf("f", 0)
  /\ Len(Prev.evalStack) = 2
  /\ getKid(Prev.evalStack[1], 0).name = "f"
  /\ getKid(Prev.evalStack[2], 0).name = "g"
  /\ getKid(Prev.evalStack[1], 1) # getKid(Prev.evalStack[2], 1)
  /\ Interp.st = "ok" /\ LastCall.v = 7

(***************************************************************************)
(* C29.  Evaluating Eval(sym, args...) is fatal, without pushing onto the  *)
(* call stack, when the number of arguments differs from the declared      *)
(* number of parameters of the definition; otherwise it pushes the Eval    *)
(* node, evaluates the definition and pops it, so after every completed    *)
(* Eval, at any nesting depth, the depth of the call stack is what it was  *)
(* before the Eval.                                                        *)
(***************************************************************************)
DeclaredParams(s, Nd) == getKid(s.defs[getKid(Nd, 0).name], 1).val

C29_EvalBalanced ==
  /\ (LastCall.m \in {"eval", "enterEval"} /\ LastCall.nd.type = "OpEval"
      /\ DeclaredParams(Prev, LastCall.nd) # getNumKids(LastCall.nd) - 1) =>
       /\ Interp.st = "fatal"
       /\ Interp.evalStack = Prev.evalStack
  /\ (LastCall.m = "enterEval"
      /\ DeclaredParams(Prev, LastCall.nd) = getNumKids(LastCall.nd) - 1) =>
       Interp.evalStack = Append(Prev.evalStack, LastCall.nd)
  /\ (LastCall.m = "eval" /\ LastCall.nd.type = "OpEval" /\ Interp.st = "ok") =>
       Interp.evalStack = Prev.evalStack

\* a call of f, which calls g, completed inside another call
C29_Witness ==
  /\ LastCall.m = "eval" /\ LastCall.nd.type = "OpEval"
  /\ getKid(LastCall.nd, 0).name = "f"
  /\ Interp.st = "ok" /\ Len(Interp.evalStack) = 1 /\ LastCall.v = 7

(***************************************************************************)
(* C30.  Evaluating Read(e) returns the value read through its operand e   *)
(* (the only operand kid of the node) and writes nothing to the output.    *)
(***************************************************************************)
C30_ReadOperand ==
  (LastCall.m = "eval" /\ LastCall.nd.type = "OpRead" /\ getNumKids(LastCall.nd) = 1) =>
    /\ Interp.st = read(Prev, getKid(LastCall.nd, 0)).s.st
    /\ Interp.st = "ok" => LastCall.v = read(Prev, getKid(LastCall.nd, 0)).v
    /\ Interp.out = Prev.out

(***************************************************************************)
(* C31.  Evaluating Stream(kind, type) returns 1 if and only if the        *)
(* current reader (kind Input) or the current writer (kind Output) matches *)
(* the requested type; for Stream(Input, Byte) the result depends only on  *)
(* the reader.                                                             *)
(***************************************************************************)
C31_StreamMatches ==
  (LastCall.m = "eval" /\ LastCall.nd.type = "OpStream"
   /\ LastCall.nd.name = "Input.Byte") =>
    /\ Interp.st = "ok"
    /\ LastCall.v = Bool(Prev.readerByte)

(***************************************************************************)
(* C32.  LastReadValue is saved and restored around Peek: after a Peek(e)  *)
(* has been evaluated, LastReadValue is what it was immediately before     *)
(* the Peek, for every operand e.                                          *)
(***************************************************************************)
C32_PeekKeepsLastRead ==
  (LastCall.m \in {"eval", "read"} /\ LastCall.nd.type = "OpPeek" /\ Interp.st = "ok") =>
    Interp.lastRead = Prev.lastRead

(***************************************************************************)
(* C33.  Writing a value through an Opcode node first emits value >>       *)
(* selShift through the selector node and only then, if a case matches,    *)
(* value & caseMask through the case body: the selector part precedes the  *)
(* case part in the output and nothing else is written in between.         *)
(***************************************************************************)
\* the writes on Writer that the call added, and the bytes they made
WritesSince(Before, After) == SubSeq(After.wlog, Len(Before.wlog) + 1, Len(After.wlog))

BytesSince(Before, After) == SubSeq(After.out, Len(Before.out) + 1, Len(After.out))

SelectorPart(Nd, v) ==
  IntTok(FormatOfType[getKid(Nd, 0).type], v \div Pow2(getWriteCase(Nd, v).shift))

CasePart(Nd, v) ==
  IntTok(FormatOfType[getKid(getWriteCase(Nd, v).case, 1).type],
         v % Pow2(getWriteCase(Nd, v).shift))

C33_SelectorFirst ==
  (LastCall.m = "write" /\ LastCall.nd.type = "OpOpcode") =>
    /\ WritesSince(Prev, Interp) =
         IF getWriteCase(LastCall.nd, LastCall.v).found
         THEN <<SelectorPart(LastCall.nd, LastCall.v), CasePart(LastCall.nd, LastCall.v)>>
         ELSE <<SelectorPart(LastCall.nd, LastCall.v)>>
    /\ BytesSince(Prev, Interp) =
         Concat([i \in 1..Len(WritesSince(Prev, Interp)) |->
                   EncodeInt(WritesSince(Prev, Interp)[i].f, WritesSince(Prev, Interp)[i].v)])

\* 263 written through Opcode(Uint8, Case(1, Uint8)): the byte 1, then 7
C33_Witness ==
  /\ LastCall.m = "write" /\ LastCall.nd.type = "OpOpcode" /\ LastCall.v = 263
  /\ getNumKids(LastCall.nd) = 2
  /\ WritesSince(Prev, Interp) = <<IntTok("Uint8", 1), IntTok("Uint8", 7)>>
  /\ BytesSince(Prev, Interp) = <<1, 7>>

(***************************************************************************)
(* C36.  After every completed write(v, Nd), for every supported node type *)
(* including Opcode and Param, ParamStack and ReturnStack have the depth   *)
(* they had before the call, and the value on top of ReturnStack when the  *)
(* frame finishes is v, so the assertion in write holds.                   *)
(***************************************************************************)
C36_WriteBalanced ==
  (LastCall.m = "write" /\ LastCall.nd.type = "OpOpcode") =>
    /\ Interp.st = "ok"
    /\ Len(Interp.paramStack) = Len(Prev.paramStack)
    /\ Len(Interp.returnStack) = Len(Prev.returnStack)

(***************************************************************************)
(* C34.  writeAction for an action other than Block_enter / Block_exit     *)
(* (for example Align) reaches the underlying writer only after every      *)
(* value written before it has been emitted, so values and actions keep    *)
(* their relative order in the output.                                     *)
(***************************************************************************)
C34_ActionAfterValues ==
  (Hist # <<>> /\ Hist[Len(Hist)].k = "Align") =>
    /\ Out # <<>> /\ Out[Len(Out)] = ActTok("Align")
    /\ Buffer = <<>>
    /\ DefaultValues = <<>>

(***************************************************************************)
(* C35.  For every configuration of CompressionFlags, the formats with     *)
(* which the generated decoder reads a literal default value and the       *)
(* length of a run of defaults are the formats with which                  *)
(* AbbrevAssignWriter wrote them (DefaultFormat and LoopSizeFormat), and   *)
(* the abbreviation index is read in AbbrevFormat.                         *)
(***************************************************************************)
\* the format operator under an optional Read
FormatRead(Nd) == FormatOfType[(IF Nd.type = "OpRead" THEN getKid(Nd, 0) ELSE Nd).type]

\* the action the decoder runs for an abbreviation index
ActionFor(Switch, idx) == CHOOSE a \in ActionsOf(Switch, idx) : TRUE

\* the first n of toks were written in format f
AllInFormat(toks, n, f) ==
  Len(toks) >= n /\ \A i \in 1..n : toks[i].k = "int" /\ toks[i].f = f

\* the decoder, reading the writer's calls in order, meets every integer
\* in the format it reads it with
RECURSIVE ReadsBack(_, _)
ReadsBack(Switch, toks) ==
  IF toks = <<>> THEN TRUE
  ELSE IF Head(toks).k # "int" THEN ReadsBack(Switch, Tail(toks))
  ELSE /\ Head(toks).f = FormatRead(getKid(Switch, 0))
       /\ ActionsOf(Switch, Head(toks).v) # {}
       /\ LET Action == ActionFor(Switch, Head(toks).v)
              Rest == Tail(toks)
          IN CASE Action.type \in DOMAIN FormatOfType ->
                    /\ AllInFormat(Rest, 1, FormatRead(Action))
                    /\ ReadsBack(Switch, Tail(Rest))
               [] Action.type = "OpLoop" ->
                    /\ AllInFormat(Rest, 1, FormatRead(getKid(Action, 0)))
                    /\ AllInFormat(Tail(Rest), Rest[1].v, FormatRead(getKid(Action, 1)))
                    /\ ReadsBack(Switch, SubSeq(Rest, Rest[1].v + 2, Len(Rest)))
               [] OTHER -> ReadsBack(Switch, Rest)

C35_FormatsAgree ==
  Symtab.op = "getCodeSymtab" => ReadsBack(GeneratedSwitch, Out)

(***************************************************************************)
(* C37.  Once flattenNode has reported an error, no further value is       *)
(* written to the output for the rest of that flatten() call (only the     *)
(* final freeze follows): the nodes enclosing the failing node emit        *)
(* neither their opcode nor their kid count.                               *)
(***************************************************************************)
C37_SilentAfterError ==
  (Flat.op = "flatten" /\ Flat.HasErrors) =>
    Flat.out = SubSeq(Flat.out, 1, Flat.errAt) \o <<FreezeEofTok>>

(***************************************************************************)
(* C38.  Over the lifetime of a FlattenAst (any number of flatten() calls  *)
(* followed by destruction) writeFreezeEof is issued to the output at most *)
(* once, and exactly once by the time the object is destroyed, also when   *)
(* flatten() reported errors or was never called.                          *)
(***************************************************************************)
FreezesIn(out) == Cardinality({ i \in 1..Len(out) : out[i] = FreezeEofTok })

C38_FreezeOnce ==
  /\ FreezesIn(Flat.out) <= 1
  /\ Flat.op = "destroyed" => FreezesIn(Flat.out) = 1
  /\ Flat.op = "new" => FreezesIn(Flat.out) = 0
  /\ Flat.op = "flatten" => FreezesIn(Flat.out) = 1

\* destroyed after two calls of flatten() that reported errors
C38_Witness ==
  /\ Flat.op = "destroyed" /\ Flat.calls = MaxFlattenCalls /\ Flat.HasErrors
  /\ FreezesIn(Flat.out) = 1

(***************************************************************************)
(* C39.  A readHeaderValue call that fails (no header entry left, or the   *)
(* format of the next entry differs from the format asked for) sets Value  *)
(* to 0, returns false and leaves the header index unchanged, so a later   *)
(* call with the right format still sees the same entry; a successful call *)
(* returns the value of the entry and advances the index by exactly one.   *)
(***************************************************************************)
C39_FailedReadKeepsIndex ==
  IntRd.op = "readHeaderValue" =>
    IF \/ IntRd.hbefore >= Len(IntRd.Header)
       \/ IntRd.Header[IntRd.hbefore + 1].second # IntRd.arg
    THEN /\ ~IntRd.ok /\ IntRd.Value = 0
         /\ IntRd.HeaderIndex = IntRd.hbefore
    ELSE /\ IntRd.ok /\ IntRd.Value = IntRd.Header[IntRd.hbefore + 1].first
         /\ IntRd.HeaderIndex = IntRd.hbefore + 1

(***************************************************************************)
(* C40.  IntCompressor::errorsFound() returns true exactly when the input  *)
(* reader exists and has recorded errors; it returns false when there is   *)
(* no reader or no error, and never dereferences a missing reader.         *)
(***************************************************************************)
C40_ErrorsFound ==
  Comp.op = "errorsFound" =>
    Comp.found = IF Comp.Input = "reader" /\ Comp.errors THEN "true" ELSE "false"
====
